---------------------------- MODULE Spec2Model ----------------------------
(***************************************************************************)
(* Math crossword: the puzzle generator (server/puzzleGenerator, file      *)
(* src/unnamed/part_008) and the solution validator (src/server/routes.ts). *)
(*                                                                         *)
(* JavaScript values are modelled as tagged records.  A number is an exact *)
(* rational with the IEEE specials (NaN, the two infinities, the signed    *)
(* zero); a string is a sequence of one-character strings, so that         *)
(* parseFloat and String() are computed character by character.            *)
(***************************************************************************)
EXTENDS Integers, Sequences, FiniteSets, TLC

(***************************************************************************)
(* Bounds of the model.                                                    *)
(***************************************************************************)
\* getRandomNumber is followed for the RandLow5 lowest values (size 5)
RandLow5 == 1
\* and from the RandHigh5 highest values maxNumber - RandHigh5 + 1 .. maxNumber
RandHigh5 == 3
\* the same for size 7
RandLow7 == 1
RandHigh7 == 0
\* the same for size 9
RandLow9 == 1
RandHigh9 == 0
\* the retry loop of generatePuzzle is followed for at most AttemptCap attempts
AttemptCap == 2
\* evaluateFullEquation is applied to operands of -EvalNeg .. EvalPos
EvalNeg == 1
EvalPos == 4
\* and to at most EvalLen operands
EvalLen == 4

(***************************************************************************)
(* Program constants.                                                      *)
(***************************************************************************)
\* maxAttempts of generateDualEquationValueGrid
ValueGridPasses == 200
\* the passes of generateRow2FromVerticalConstraints
DerivePasses == 50

(***************************************************************************)
(* Small helpers.                                                          *)
(***************************************************************************)
Abs(x) == IF x < 0 THEN -x ELSE x

Min(a, b) == IF a < b THEN a ELSE b

Max(a, b) == IF a > b THEN a ELSE b

RECURSIVE Gcd(_, _)
Gcd(a, b) == IF b = 0 THEN a ELSE Gcd(b, a % b)

\* Math.floor(a / b) for b > 0
FloorDiv(a, b) == a \div b

RECURSIVE Pow10(_)
Pow10(k) == IF k = 0 THEN 1 ELSE 10 * Pow10(k - 1)

(***************************************************************************)
(* JavaScript numbers: k = "fin" is the rational n/d (d > 0, reduced;      *)
(* neg is the sign bit, which only matters for zero), k = "inf" is         *)
(* +Infinity or -Infinity by neg, k = "nan" is NaN.                        *)
(***************************************************************************)
NaN == [k |-> "nan", n |-> 0, d |-> 1, neg |-> FALSE]

Inf(neg) == [k |-> "inf", n |-> 0, d |-> 1, neg |-> neg]

Zero(neg) == [k |-> "fin", n |-> 0, d |-> 1, neg |-> neg]

\* the finite number n/d, d # 0, reduced
Rat(n, d) ==
  LET s == IF d < 0 THEN -1 ELSE 1
      g == Gcd(Abs(n), Abs(d))
  IN  [k |-> "fin", n |-> (s * n) \div g, d |-> (s * d) \div g, neg |-> (s * n < 0)]

FromInt(i) == Rat(i, 1)

IsNaN(x) == x.k = "nan"

IsZero(x) == x.k = "fin" /\ x.n = 0

NumNeg(x) ==
  IF x.k = "nan" THEN NaN
  ELSE IF x.k = "inf" THEN Inf(~x.neg)
  ELSE IF x.n = 0 THEN Zero(~x.neg)
  ELSE Rat(-x.n, x.d)

NumAbs(x) == IF x.k = "nan" THEN NaN ELSE IF x.neg THEN NumNeg(x) ELSE x

\* a * b
NumMul(a, b) ==
  LET sg == (a.neg # b.neg)
  IN  IF IsNaN(a) \/ IsNaN(b) THEN NaN
      ELSE IF a.k = "inf" \/ b.k = "inf"
        THEN IF IsZero(a) \/ IsZero(b) THEN NaN ELSE Inf(sg)
      ELSE IF a.n = 0 \/ b.n = 0 THEN Zero(sg)
      ELSE Rat(a.n * b.n, a.d * b.d)

\* a / b
NumDiv(a, b) ==
  LET sg == (a.neg # b.neg)
  IN  IF IsNaN(a) \/ IsNaN(b) THEN NaN
      ELSE IF a.k = "inf" THEN (IF b.k = "inf" THEN NaN ELSE Inf(sg))
      ELSE IF b.k = "inf" THEN Zero(sg)
      ELSE IF b.n = 0 THEN (IF a.n = 0 THEN NaN ELSE Inf(sg))
      ELSE IF a.n = 0 THEN Zero(sg)
      ELSE Rat(a.n * b.d, a.d * b.n)

\* a + b
NumAdd(a, b) ==
  IF IsNaN(a) \/ IsNaN(b) THEN NaN
  ELSE IF a.k = "inf"
    THEN IF b.k = "inf" /\ b.neg # a.neg THEN NaN ELSE a
  ELSE IF b.k = "inf" THEN b
  ELSE LET s == a.n * b.d + b.n * a.d
       IN  IF s = 0 THEN Zero(a.neg /\ b.neg) ELSE Rat(s, a.d * b.d)

\* a - b
NumSub(a, b) == NumAdd(a, NumNeg(b))

\* n1/d1 < n2/d2 for d1, d2 > 0, by integer parts and then reciprocals of
\* the fractional parts, so that no product is formed
RECURSIVE RatLess(_, _, _, _)
RatLess(n1, d1, n2, d2) ==
  LET q1 == n1 \div d1
      q2 == n2 \div d2
      r1 == n1 % d1
      r2 == n2 % d2
  IN  IF q1 # q2 THEN q1 < q2
      ELSE IF r2 = 0 THEN FALSE
      ELSE IF r1 = 0 THEN TRUE
      ELSE RatLess(d2, r2, d1, r1)

\* a < b
NumLess(a, b) ==
  IF IsNaN(a) \/ IsNaN(b) THEN FALSE
  ELSE IF a.k = "inf" THEN a.neg /\ ~(b.k = "inf" /\ b.neg)
  ELSE IF b.k = "inf" THEN ~b.neg
  ELSE RatLess(a.n, a.d, b.n, b.d)

\* a tolerance ten times as wide
ToleranceWide == Rat(1, 100)

\* the literal 0.001 of the validators
Tolerance == Rat(1, 1000)

(***************************************************************************)
(* Strings are sequences of characters; String(n) and parseFloat.          *)
(***************************************************************************)
Digits == <<"0", "1", "2", "3", "4", "5", "6", "7", "8", "9">>

DigitChars == {Digits[i] : i \in 1..10}

DigitVal(c) == CHOOSE i \in 0..9 : Digits[i + 1] = c

RECURSIVE NatToString(_)
NatToString(n) ==
  IF n < 10 THEN <<Digits[n + 1]>>
  ELSE Append(NatToString(n \div 10), Digits[(n % 10) + 1])

\* the digits of f written with exactly k places
RECURSIVE FracDigits(_, _)
FracDigits(f, k) ==
  IF k = 0 THEN <<>>
  ELSE Append(FracDigits(f \div 10, k - 1), Digits[(f % 10) + 1])

\* the number of decimal places of a reduced denominator 2^a 5^b, -1 if none
RECURSIVE DecimalPlaces(_, _)
DecimalPlaces(d, k) ==
  IF Pow10(k) % d = 0 THEN k
  ELSE IF k >= 9 THEN -1
  ELSE DecimalPlaces(d, k + 1)

\* the digits of m / 10^k
Decimal(m, k) ==
  IF k = 0 THEN NatToString(m)
  ELSE NatToString(m \div Pow10(k)) \o <<".">> \o FracDigits(m % Pow10(k), k)

\* |x| in positional notation, k being the decimal places of x
Positional(x, k) == Decimal(Abs(x.n) * (Pow10(k) \div x.d), k)

\* Number.prototype.toString / String(x) for the numbers of the model:
\* integers and finite decimals print in positional notation
NumToString(x) ==
  IF x.k = "nan" THEN <<"N", "a", "N">>
  ELSE IF x.k = "inf"
    THEN (IF x.neg THEN <<"-">> ELSE <<>>) \o <<"I", "n", "f", "i", "n", "i", "t", "y">>
  ELSE IF x.n = 0 THEN <<"0">>
  ELSE (IF x.n < 0 THEN <<"-">> ELSE <<>>) \o Positional(x, DecimalPlaces(x.d, 0))

\* String(n) for an integer n
IntToString(i) == NumToString(FromInt(i))

\* the longest prefix of s made of digits, as <<value, count>>
RECURSIVE ScanDigits(_, _, _)
ScanDigits(s, acc, cnt) ==
  IF s # <<>> /\ Head(s) \in DigitChars
    THEN ScanDigits(Tail(s), 10 * acc + DigitVal(Head(s)), cnt + 1)
    ELSE <<acc, cnt, s>>

RECURSIVE SkipSpaces(_)
SkipSpaces(s) == IF s # <<>> /\ Head(s) = " " THEN SkipSpaces(Tail(s)) ELSE s

IsPrefix(p, s) == Len(p) <= Len(s) /\ SubSeq(s, 1, Len(p)) = p

\* parseFloat(string): leading blanks, a sign, digits, a fraction; the
\* longest prefix that is a decimal literal, NaN when there is none
\* the value of the literal with sign neg, integer digits ip and fraction
\* digits fp (both as ScanDigits gives them), s1 being the text after the sign
ParseLiteral(neg, s1, ip, fp) ==
  IF IsPrefix(<<"I", "n", "f", "i", "n", "i", "t", "y">>, s1) THEN Inf(neg)
  ELSE IF ip[2] = 0 /\ fp[2] = 0 THEN NaN
  ELSE IF ip[1] * Pow10(fp[2]) + fp[1] = 0 THEN Zero(neg)
  ELSE Rat((IF neg THEN -1 ELSE 1) * (ip[1] * Pow10(fp[2]) + fp[1]), Pow10(fp[2]))

\* the fraction digits after the integer digits ip
ParseFraction(neg, s1, ip) ==
  ParseLiteral(neg, s1, ip,
               IF ip[3] # <<>> /\ Head(ip[3]) = "."
                 THEN ScanDigits(Tail(ip[3]), 0, 0)
                 ELSE <<0, 0, ip[3]>>)

\* the text s1 after the sign
ParseUnsigned(neg, s1) == ParseFraction(neg, s1, ScanDigits(s1, 0, 0))

\* the text s0 after the leading blanks
ParseSigned(s0) ==
  ParseUnsigned(s0 # <<>> /\ Head(s0) = "-",
                IF s0 # <<>> /\ Head(s0) \in {"-", "+"} THEN Tail(s0) ELSE s0)

ParseFloatStr(str) == ParseSigned(SkipSpaces(str))


(***************************************************************************)
(* JavaScript values that a cell's value (or a malformed cell) can be.     *)
(***************************************************************************)
Undefined == [k |-> "undefined", num |-> NaN, s |-> <<>>]

Null == [k |-> "null", num |-> NaN, s |-> <<>>]

JNum(x) == [k |-> "number", num |-> x, s |-> <<>>]

JStr(str) == [k |-> "string", num |-> NaN, s |-> str]

JInt(i) == JNum(FromInt(i))

\* the empty string ''
Empty == JStr(<<>>)

\* ToString(v), the conversion parseFloat applies to its argument
JSToString(v) ==
  IF v.k = "string" THEN v.s
  ELSE IF v.k = "number" THEN NumToString(v.num)
  ELSE IF v.k = "null" THEN <<"n", "u", "l", "l">>
  ELSE <<"u", "n", "d", "e", "f", "i", "n", "e", "d">>

\* parseFloat(v)
ParseFloat(v) == ParseFloatStr(JSToString(v))

\* ToBoolean(v), as used by || and !
Truthy(v) ==
  IF v.k = "string" THEN v.s # <<>>
  ELSE IF v.k = "number" THEN ~IsNaN(v.num) /\ ~IsZero(v.num)
  ELSE FALSE

\* x || 0 for a number x
OrZero(x) == IF IsNaN(x) \/ IsZero(x) THEN Zero(FALSE) ELSE x

\* parseFloat(v) || 0
ParseOrZero(v) == OrZero(ParseFloat(v))

\* v || '+'
OrPlus(v) == IF Truthy(v) THEN v ELSE JStr(<<"+">>)

\* v === 'c' for a one-character string literal
IsStr(v, c) == v.k = "string" /\ v.s = <<c>>

(***************************************************************************)
(* GridCell (src/shared/schema.ts).                                        *)
(***************************************************************************)
Cell(type, value, isEditable, row, col) ==
  [type |-> type, value |-> value, isEditable |-> isEditable, row |-> row, col |-> col]

\* a filler cell that holds an equals sign
BlockedCellEquals(row, col) == Cell("operator", JStr(<<"=">>), FALSE, row, col)

\* the cell every grid is initialised with
BlockedCell(row, col) == Cell("blocked", Empty, FALSE, row, col)

\* an operator cell the player could overwrite
OperatorCellEditable(op, row, col) == Cell("operator", JStr(<<op>>), TRUE, row, col)

OperatorCell(op, row, col) == Cell("operator", JStr(<<op>>), FALSE, row, col)

(***************************************************************************)
(* The generator: configuration and random draws.                         *)
(***************************************************************************)
Difficulties == {"easy", "medium", "hard"}

DIFFICULTY_CONFIGS(difficulty) ==
  IF difficulty = "easy" THEN
    [gridSize |-> 5, minNumber |-> 1, maxNumber |-> 10, operators |-> <<"+", "-">>,
     allowNegativeResults |-> FALSE, allowDecimals |-> FALSE]
  ELSE IF difficulty = "medium" THEN
    [gridSize |-> 7, minNumber |-> 1, maxNumber |-> 20, operators |-> <<"+", "-", "*">>,
     allowNegativeResults |-> TRUE, allowDecimals |-> FALSE]
  ELSE
    [gridSize |-> 9, minNumber |-> 1, maxNumber |-> 50, operators |-> <<"+", "-", "*", "/">>,
     allowNegativeResults |-> TRUE, allowDecimals |-> FALSE]

\* the configuration generatePuzzle works with
AdjustedConfig(difficulty) ==
  LET config == DIFFICULTY_CONFIGS(difficulty)
  IN  IF config.gridSize = 9
        THEN [config EXCEPT !.maxNumber = 10, !.operators = <<"+", "-", "*">>]
        ELSE config

\* the configuration of the 9x9 generator
SimpleConfig(config) ==
  [config EXCEPT !.maxNumber = Min(50, config.maxNumber),
                 !.operators = <<"+", "-">>,
                 !.allowNegativeResults = TRUE]

RandLow(size) == IF size = 5 THEN RandLow5 ELSE IF size = 7 THEN RandLow7 ELSE RandLow9

RandHigh(size) == IF size = 5 THEN RandHigh5 ELSE IF size = 7 THEN RandHigh7 ELSE RandHigh9

\* the values getRandomNumber is followed for: the lowest and the highest of
\* minNumber .. maxNumber
RandomNumbers(config) ==
  {n \in config.minNumber..config.maxNumber :
     \/ n < config.minNumber + RandLow(config.gridSize)
     \/ n > config.maxNumber - RandHigh(config.gridSize)}

\* the values getRandomOperator can return
RandomOperators(config) == {config.operators[i] : i \in 1..Len(config.operators)}

(***************************************************************************)
(* The generator's evaluator.  A number | null is [ok, v].                 *)
(***************************************************************************)
NullNum == [ok |-> FALSE, v |-> 0]

Some(v) == [ok |-> TRUE, v |-> v]

\* Number.isInteger(num1 / num2) for integers num1, num2 # 0
IsIntegerQuotient(num1, num2) == num1 % Abs(num2) = 0

evaluateEquation(num1, operator, num2) ==
  IF operator = "+" THEN Some(num1 + num2)
  ELSE IF operator = "-" THEN Some(num1 - num2)
  ELSE IF operator = "*" THEN Some(num1 * num2)
  ELSE IF operator = "/" THEN
    IF num2 = 0 THEN NullNum
    ELSE IF IsIntegerQuotient(num1, num2)
      THEN Some((num1 * (IF num2 < 0 THEN -1 ELSE 1)) \div Abs(num2))
      ELSE NullNum
  ELSE NullNum

\* array.splice(i, 2, x) and array.splice(i, 1), i counted from 1
Splice2(a, i, x) == SubSeq(a, 1, i - 1) \o <<x>> \o SubSeq(a, i + 2, Len(a))

Splice1(a, i) == SubSeq(a, 1, i - 1) \o SubSeq(a, i + 1, Len(a))

\* a first pass that moves on after a collapse instead of rechecking the index
RecheckIndexSkipping(i) == i + 1

\* the index the first pass continues with after collapsing position i
RecheckIndex(i) == i

\* first pass of evaluateFullEquation: collapse * and /, from index i on
RECURSIVE FirstPass(_, _, _)
FirstPass(nums, ops, i) ==
  IF i > Len(ops) THEN [ok |-> TRUE, nums |-> nums, ops |-> ops]
  ELSE IF ops[i] = "*" \/ ops[i] = "/" THEN
    LET result == evaluateEquation(nums[i], ops[i], nums[i + 1])
    IN  IF ~result.ok THEN [ok |-> FALSE, nums |-> <<>>, ops |-> <<>>]
        ELSE FirstPass(Splice2(nums, i, result.v), Splice1(ops, i), RecheckIndex(i))
  ELSE FirstPass(nums, ops, i + 1)

\* second pass of evaluateFullEquation: fold the rest from the left
RECURSIVE SecondPass(_, _, _, _)
SecondPass(result, nums, ops, i) ==
  IF i > Len(ops) THEN Some(result)
  ELSE LET calc == evaluateEquation(result, ops[i], nums[i + 1])
       IN  IF ~calc.ok THEN NullNum ELSE SecondPass(calc.v, nums, ops, i + 1)

evaluateFullEquation(values, operators) ==
  IF Len(values) = 0 THEN NullNum
  ELSE IF Len(values) = 1 THEN Some(values[1])
  ELSE LET p == FirstPass(values, operators, 1)
       IN  IF ~p.ok THEN NullNum ELSE SecondPass(p.nums[1], p.nums, p.ops, 1)

(***************************************************************************)
(* attemptPuzzleGeneration: the 5x5 and 7x7 generator.  rnd holds the      *)
(* values Math.random yields during one attempt.                           *)
(***************************************************************************)
NoPuzzle == [ok |-> FALSE, grid |-> <<>>, solution |-> <<>>]

Puzzle(grid, solution) == [ok |-> TRUE, grid |-> grid, solution |-> solution]

NumEqRows(size) == (size \div 2) + 1

\* the random draws of one attempt: the operands and operators of the first
\* and the last row, and the operator of every intermediate vertical step
SmallRandomChoices(config) ==
  LET nv == NumEqRows(config.gridSize)
  IN  [firstVals : [1..(nv - 1) -> RandomNumbers(config)],
       firstOps : [1..(nv - 2) -> RandomOperators(config)],
       lastVals : [1..(nv - 1) -> RandomNumbers(config)],
       lastOps : [1..(nv - 2) -> RandomOperators(config)],
       stepOps : [1..nv -> [1..(nv - 3) -> {"+", "-"}]]]

\* the last operator of a column and the value it is applied to
LastStep(currentVal, bottomVal, config) ==
  IF Abs(bottomVal - currentVal) <= config.maxNumber * 2
    THEN [op |-> "+", val |-> bottomVal - currentVal]
  ELSE IF Abs(currentVal - bottomVal) <= config.maxNumber * 2
    THEN [op |-> "-", val |-> currentVal - bottomVal]
  ELSE [op |-> "+", val |-> currentVal + (bottomVal - currentVal)]

\* the value of an intermediate step
StepVal(currentVal, bottomVal, remaining, config) ==
  LET stepSize == FloorDiv(bottomVal - currentVal, remaining)
  IN  Max(1, Min(config.maxNumber, Abs(stepSize)))

\* the column loop: the values of the middle rows and the vertical operators
RECURSIVE ColumnPath(_, _, _, _, _, _)
ColumnPath(currentVal, bottomVal, opIdx, numOps, stepOps, config) ==
  IF opIdx >= numOps THEN [values |-> <<>>, ops |-> <<>>]
  ELSE IF opIdx = numOps - 1 THEN
    LET st == LastStep(currentVal, bottomVal, config)
    IN  [values |-> <<st.val>>, ops |-> <<st.op>>]
  ELSE
    LET nextVal == StepVal(currentVal, bottomVal, numOps - opIdx, config)
        op == stepOps[opIdx + 1]
        cur == IF op = "+" THEN currentVal + nextVal ELSE currentVal - nextVal
        rest == ColumnPath(cur, bottomVal, opIdx + 1, numOps, stepOps, config)
    IN  [values |-> <<nextVal>> \o rest.values, ops |-> <<op>> \o rest.ops]

NoOps == [ok |-> FALSE, ops |-> <<>>]

\* the backtracking search for the operators of a middle row: the first
\* operator sequence, in the order of config.operators, that evaluates to
\* the row's last value
RECURSIVE findOperators(_, _, _)
RECURSIVE TryOperators(_, _, _, _)
findOperators(opsSoFar, rowValues, config) ==
  LET numValues == Len(rowValues)
  IN  IF Len(opsSoFar) = numValues - 2 THEN
        LET result == evaluateFullEquation(SubSeq(rowValues, 1, numValues - 1), opsSoFar)
        IN  IF result.ok /\ result.v = rowValues[numValues]
              THEN [ok |-> TRUE, ops |-> opsSoFar]
              ELSE NoOps
      ELSE TryOperators(opsSoFar, rowValues, config, 1)

TryOperators(opsSoFar, rowValues, config, k) ==
  IF k > Len(config.operators) THEN NoOps
  ELSE LET ops == findOperators(Append(opsSoFar, config.operators[k]), rowValues, config)
       IN  IF ops.ok THEN ops ELSE TryOperators(opsSoFar, rowValues, config, k + 1)

\* the fixed pattern of given cells of attemptPuzzleGeneration
IsGivenSmall(size, eqIdx, i) ==
  LET numEqRows == NumEqRows(size)
      numValues == numEqRows
      isFirst == eqIdx = 0
      isLast == eqIdx = numEqRows - 1
      isResultColumn == i = numValues - 1
      middleRowIdx == numEqRows \div 2
      middleValIdx == numValues \div 2
  IN  IF size = 5 THEN (isFirst /\ i = 0) \/ (isLast /\ isResultColumn)
      ELSE IF size = 7 THEN
        \/ eqIdx = 0 /\ i = 0
        \/ eqIdx = 0 /\ isResultColumn
        \/ eqIdx = middleRowIdx /\ i = middleValIdx
        \/ eqIdx = numEqRows - 1 /\ isResultColumn
      ELSE IF size = 9 THEN
        \/ eqIdx = 0 /\ (i = 1 \/ i = 3)
        \/ eqIdx = 1 /\ i = 4
        \/ eqIdx = 2 /\ (i = 0 \/ i = 2 \/ i = 4)
        \/ eqIdx = 3 /\ (i = 0 \/ i = 3)
        \/ eqIdx = 4 /\ i = 1
      ELSE FALSE

\* the value cell of the player grid (inSolution = FALSE) or of the solution
\* a value cell whose given value is left out of the player grid
SmallValueCellGivenBlank(isGiven, v, inSolution, row, col) ==
  Cell(IF isGiven THEN "number" ELSE "input",
       IF inSolution THEN JInt(v) ELSE Empty,
       ~isGiven, row, col)

SmallValueCell(isGiven, v, inSolution, row, col) ==
  Cell(IF isGiven THEN "number" ELSE "input",
       IF isGiven \/ inSolution THEN JInt(v) ELSE Empty,
       ~isGiven, row, col)

\* the grid built from the rows and the vertical operators
SmallGrid(allRows, verticalOps, size, inSolution) ==
  LET numValues == NumEqRows(size)
      vOps == [c \in 1..numValues |->
                 IF Len(verticalOps[c]) >= 1 THEN verticalOps[c][1] ELSE "+"]
      cellAt(row, col) ==
        IF row % 2 = 0 THEN
          LET rowData == allRows[(row \div 2) + 1]
              i == col \div 2
          IN  IF col % 2 = 0
                THEN SmallValueCell(IsGivenSmall(size, row \div 2, i),
                                    rowData.values[i + 1], inSolution, row, col)
              ELSE IF i < numValues - 2
                THEN OperatorCell(rowData.operators[i + 1], row, col)
              ELSE OperatorCell("=", row, col)
        ELSE IF col % 2 = 0 THEN
          LET valIdx == col \div 2
              opRowIdx == row \div 2
          IN  IF row = size - 2 THEN OperatorCell("=", row, col)
              ELSE IF opRowIdx + 1 <= Len(verticalOps[valIdx + 1])
                THEN OperatorCell(verticalOps[valIdx + 1][opRowIdx + 1], row, col)
              ELSE OperatorCell(vOps[valIdx + 1], row, col)
        ELSE BlockedCell(row, col)
  IN  [r \in 1..size |-> [c \in 1..size |-> cellAt(r - 1, c - 1)]]

attemptPuzzleGeneration(config, rnd) ==
  LET size == config.gridSize
      numEqRows == NumEqRows(size)
      numValues == numEqRows
      firstResult == evaluateFullEquation(rnd.firstVals, rnd.firstOps)
      lastResult == evaluateFullEquation(rnd.lastVals, rnd.lastOps)
  IN  IF ~firstResult.ok THEN NoPuzzle
      ELSE IF ~lastResult.ok THEN NoPuzzle
      ELSE
        LET firstRow == [values |-> Append(rnd.firstVals, firstResult.v),
                         operators |-> rnd.firstOps]
            lastRow == [values |-> Append(rnd.lastVals, lastResult.v),
                        operators |-> rnd.lastOps]
            cols == [c \in 1..numValues |->
                       ColumnPath(firstRow.values[c], lastRow.values[c], 0,
                                  numEqRows - 2, rnd.stepOps[c], config)]
            verticalOps == [c \in 1..numValues |-> cols[c].ops]
            midValues == [r \in 1..(numEqRows - 2) |->
                            [c \in 1..numValues |-> cols[c].values[r]]]
            middleOps == [r \in 1..(numEqRows - 2) |->
                            findOperators(<<>>, midValues[r], config)]
        IN  IF \E r \in 1..(numEqRows - 2) : ~middleOps[r].ok THEN NoPuzzle
            ELSE
              LET allRows == <<firstRow>>
                               \o [r \in 1..(numEqRows - 2) |->
                                     [values |-> midValues[r],
                                      operators |-> middleOps[r].ops]]
                               \o <<lastRow>>
              IN  Puzzle(SmallGrid(allRows, verticalOps, size, FALSE),
                         SmallGrid(allRows, verticalOps, size, TRUE))

\* what one call of attemptPuzzleGeneration can return
SmallAttemptOutcomes(config) ==
  {attemptPuzzleGeneration(config, rnd) : rnd \in SmallRandomChoices(config)}

(***************************************************************************)
(* attemptPuzzleGeneration9x9: the 5x5 value grid of the dual equations.   *)
(***************************************************************************)
NoRow == [ok |-> FALSE, row |-> <<>>]

\* generateRandomHorizontalRow with its five random draws
generateRandomHorizontalRow(v0, v1, op1, v2, op2) ==
  LET r1 == evaluateEquation(v0, op1, v1)
  IN  IF ~r1.ok THEN NoRow
      ELSE LET r2 == evaluateEquation(r1.v, op2, v2)
           IN  IF ~r2.ok THEN NoRow
               ELSE [ok |-> TRUE, row |-> <<v0, v1, r1.v, v2, r2.v>>]

\* what generateRandomHorizontalRow can return
RandomRowOutcomes(config) ==
  {generateRandomHorizontalRow(v0, v1, op1, v2, op2) :
     v0 \in RandomNumbers(config), v1 \in RandomNumbers(config),
     op1 \in RandomOperators(config), v2 \in RandomNumbers(config),
     op2 \in RandomOperators(config)}

AllOperators == <<"+", "-", "*", "/">>

\* some operator of + - * / gives a op b = r (within 0.001, on integers)
SomeOperatorGives(a, b, r) ==
  \E k \in 1..Len(AllOperators) :
    LET result == evaluateEquation(a, AllOperators[k], b)
    IN  result.ok /\ Abs(result.v - r) < 1

isValidHorizontalRow(row) ==
  /\ SomeOperatorGives(row[1], row[2], row[3])
  /\ SomeOperatorGives(row[3], row[4], row[5])

\* one pass of the loop of generateRow2FromVerticalConstraints (and of
\* generateRow4FromVerticalConstraints): the row computed with the drawn
\* operators, NoRow when a column fails or the row is not valid horizontally
DerivedRow(top, mid, ops) ==
  LET res == [c \in 1..5 |-> evaluateEquation(top[c], ops[c], mid[c])]
      row == [c \in 1..5 |-> res[c].v]
  IN  IF (\A c \in 1..5 : res[c].ok) /\ isValidHorizontalRow(row)
        THEN [ok |-> TRUE, row |-> row]
        ELSE NoRow

\* what the 50 passes can end with: the row of a pass that succeeds, or
\* NoRow when every pass can fail
DerivedRowOutcomes(top, mid, config) ==
  LET passes == {DerivedRow(top, mid, ops) : ops \in [1..5 -> RandomOperators(config)]}
  IN  IF DerivePasses > 0 THEN passes ELSE {NoRow}

NoValueGrid == [ok |-> FALSE, grid |-> <<>>]

\* what one pass of the loop of generateDualEquationValueGrid can end with
ValueGridPassOutcomes(config) ==
  LET rows == RandomRowOutcomes(config)
      good == {r \in rows : r.ok}
      upTo2 == UNION {{<<r0.row, r1.row, r2.row>> :
                         r2 \in {x \in DerivedRowOutcomes(r0.row, r1.row, config) : x.ok}} :
                      r0 \in good, r1 \in good}
      full == UNION {{[ok |-> TRUE, grid |-> <<g[1], g[2], g[3], r3.row, r4.row>>] :
                        r4 \in {x \in DerivedRowOutcomes(g[3], r3.row, config) : x.ok}} :
                     g \in upTo2, r3 \in good}
      canFail == \/ \E r \in rows : ~r.ok
                 \/ \E r0 \in good, r1 \in good :
                      NoRow \in DerivedRowOutcomes(r0.row, r1.row, config)
                 \/ \E g \in upTo2, r3 \in good :
                      NoRow \in DerivedRowOutcomes(g[3], r3.row, config)
  IN  full \cup (IF canFail THEN {NoValueGrid} ELSE {})

\* what generateDualEquationValueGrid can return: the grid of the first
\* pass that succeeds, null when all the passes fail
ValueGridOutcomes(config) ==
  IF ValueGridPasses > 0 THEN ValueGridPassOutcomes(config) ELSE {NoValueGrid}

NoOperator == [ok |-> FALSE, op |-> ""]

\* findOperator: the first operator of config.operators with a op b === result
RECURSIVE findOperatorFrom(_, _, _, _, _)
findOperatorFrom(a, b, result, operators, k) ==
  IF k > Len(operators) THEN NoOperator
  ELSE LET computed == evaluateEquation(a, operators[k], b)
       IN  IF computed.ok /\ computed.v = result
             THEN [ok |-> TRUE, op |-> operators[k]]
             ELSE findOperatorFrom(a, b, result, operators, k + 1)

findOperator(a, b, result, config) == findOperatorFrom(a, b, result, config.operators, 1)

\* findOperator(a, b, result, config) || '+'
OperatorOrPlus(found) == IF found.ok THEN found.op ELSE "+"

\* the fixed pattern of given cells of the 9x9 grid
\* a pattern that gives the diagonal of the value grid
isGivenNumberDiagonal(eqRowIdx, valueIdx) == eqRowIdx = valueIdx

isGivenNumber(eqRowIdx, valueIdx) ==
  \/ eqRowIdx = 0 /\ (valueIdx = 1 \/ valueIdx = 3)
  \/ eqRowIdx = 1 /\ valueIdx = 4
  \/ eqRowIdx = 2 /\ (valueIdx = 0 \/ valueIdx = 2 \/ valueIdx = 4)
  \/ eqRowIdx = 3 /\ (valueIdx = 0 \/ valueIdx = 3)
  \/ eqRowIdx = 4 /\ valueIdx = 1

\* a value cell that the solution grid always marks as a fixed number
DualValueCellSolved(isGiven, v, inSolution, row, col) ==
  Cell(IF isGiven \/ inSolution THEN "number" ELSE "input",
       IF isGiven \/ inSolution THEN JStr(IntToString(v)) ELSE Empty,
       ~(isGiven \/ inSolution), row, col)

\* the value cell of the 9x9 player grid (inSolution = FALSE) or solution
DualValueCell(isGiven, v, inSolution, row, col) ==
  Cell(IF isGiven THEN "number" ELSE "input",
       IF isGiven \/ inSolution THEN JStr(IntToString(v)) ELSE Empty,
       ~isGiven, row, col)

\* the 9x9 grid (player grid or solution) of buildDualEquationGridsFromValues
DualGrid(valueGrid, config, inSolution) ==
  LET size == 9
      horizontalOps == [row \in 1..5 |->
        <<OperatorOrPlus(findOperator(valueGrid[row][1], valueGrid[row][2],
                                      valueGrid[row][3], config)),
          OperatorOrPlus(findOperator(valueGrid[row][3], valueGrid[row][4],
                                      valueGrid[row][5], config))>>]
      verticalOps == [col \in 1..5 |->
        <<OperatorOrPlus(findOperator(valueGrid[1][col], valueGrid[2][col],
                                      valueGrid[3][col], config)),
          OperatorOrPlus(findOperator(valueGrid[3][col], valueGrid[4][col],
                                      valueGrid[5][col], config))>>]
      cellAt(row, col) ==
        IF row % 2 = 0 THEN
          LET eqIdx == row \div 2
          IN  IF col % 2 = 0
                THEN DualValueCell(isGivenNumber(eqIdx, col \div 2),
                                   valueGrid[eqIdx + 1][(col \div 2) + 1],
                                   inSolution, row, col)
              ELSE IF col = 1 THEN OperatorCell(horizontalOps[eqIdx + 1][1], row, col)
              ELSE IF col = 5 THEN OperatorCell(horizontalOps[eqIdx + 1][2], row, col)
              ELSE OperatorCell("=", row, col)
        ELSE IF col % 2 = 0 THEN
          IF row = 1 \/ row = 5
            THEN OperatorCell(verticalOps[(col \div 2) + 1][IF row = 1 THEN 1 ELSE 2],
                              row, col)
            ELSE OperatorCell("=", row, col)
        ELSE BlockedCell(row, col)
  IN  [r \in 1..size |-> [c \in 1..size |-> cellAt(r - 1, c - 1)]]

buildDualEquationGridsFromValues(valueGrid, config) ==
  Puzzle(DualGrid(valueGrid, config, FALSE), DualGrid(valueGrid, config, TRUE))

\* what one call of attemptPuzzleGeneration9x9 can return
DualAttemptOutcomes(config) ==
  LET simpleConfig == SimpleConfig(config)
  IN  {IF vg.ok THEN buildDualEquationGridsFromValues(vg.grid, simpleConfig)
                ELSE NoPuzzle :
         vg \in ValueGridOutcomes(simpleConfig)}

(***************************************************************************)
(* generateFallbackPuzzle: the hard-coded 5x5 core in a size x size grid.  *)
(***************************************************************************)
PatternNumber(v) == [type |-> "number", value |-> JInt(v), isEditable |-> FALSE,
                     hasSol |-> FALSE, sol |-> 0]

PatternOperator(op) == [type |-> "operator", value |-> JStr(<<op>>), isEditable |-> FALSE,
                        hasSol |-> FALSE, sol |-> 0]

PatternInput(sol) == [type |-> "input", value |-> Empty, isEditable |-> TRUE,
                      hasSol |-> TRUE, sol |-> sol]

PatternBlocked == [type |-> "blocked", value |-> Empty, isEditable |-> FALSE,
                   hasSol |-> FALSE, sol |-> 0]

FallbackPattern ==
  << <<PatternNumber(5), PatternOperator("+"), PatternInput(3),
       PatternOperator("="), PatternInput(8)>>,
     <<PatternOperator("+"), PatternBlocked, PatternOperator("+"),
       PatternBlocked, PatternOperator("+")>>,
     <<PatternInput(2), PatternOperator("+"), PatternNumber(1),
       PatternOperator("="), PatternInput(3)>>,
     <<PatternOperator("="), PatternBlocked, PatternOperator("="),
       PatternBlocked, PatternOperator("=")>>,
     <<PatternNumber(7), PatternOperator("+"), PatternInput(2),
       PatternOperator("="), PatternNumber(9)>> >>

FallbackGrid(size, inSolution) ==
  LET cellAt(row, col) ==
        IF row < 5 /\ col < 5 THEN
          LET cell == FallbackPattern[row + 1][col + 1]
          IN  Cell(cell.type,
                   IF cell.hasSol THEN (IF inSolution THEN JInt(cell.sol) ELSE Empty)
                                  ELSE cell.value,
                   cell.isEditable, row, col)
        ELSE BlockedCell(row, col)
  IN  [r \in 1..size |-> [c \in 1..size |-> cellAt(r - 1, c - 1)]]

\* a fallback that returns the 5x5 core whatever the grid size
generateFallbackPuzzleCore(config) ==
  Puzzle(FallbackGrid(5, FALSE), FallbackGrid(5, TRUE))

generateFallbackPuzzle(config) ==
  Puzzle(FallbackGrid(config.gridSize, FALSE), FallbackGrid(config.gridSize, TRUE))

(***************************************************************************)
(* The request body of POST /api/validate-solution is any JSON value: an   *)
(* array is [k |-> "array", a |-> elements], an object is a cell record,   *)
(* the rest are the primitive values above.                                *)
(***************************************************************************)
JArr(a) == [k |-> "array", a |-> a]

Kind(v) == IF "type" \in DOMAIN v THEN "object" ELSE v.k

\* ToBoolean of any value
JTruthy(v) == IF Kind(v) \in {"object", "array"} THEN TRUE ELSE Truthy(v)

\* v.length, -1 standing for undefined (v is neither null nor undefined)
JLength(v) ==
  IF Kind(v) = "array" THEN Len(v.a)
  ELSE IF Kind(v) = "string" THEN Len(v.s)
  ELSE -1

\* v?.[i], i counted from 0
JIndex(v, i) ==
  IF Kind(v) = "array" THEN (IF i < Len(v.a) THEN v.a[i + 1] ELSE Undefined)
  ELSE IF Kind(v) = "string" THEN (IF i < Len(v.s) THEN JStr(<<v.s[i + 1]>>) ELSE Undefined)
  ELSE Undefined

\* v?.value
ValueOf(v) == IF Kind(v) = "object" THEN v.value ELSE Undefined

\* v.type of a truthy v, "undefined" when there is none
TypeOf(v) == IF Kind(v) = "object" THEN v.type ELSE "undefined"

\* the grid as JSON.stringify / JSON.parse carry it to the server
ToJSON(grid) == JArr([r \in 1..Len(grid) |-> JArr(grid[r])])

(***************************************************************************)
(* The validator's evaluator (the helper of validateHorizontalEquations    *)
(* and of validateVerticalEquations): floating-point, no failure value.    *)
(***************************************************************************)
\* nums[i] in arithmetic, i counted from 1: undefined becomes NaN
NumAt(nums, i) == IF i <= Len(nums) THEN nums[i] ELSE NaN

\* array.splice(i, 2, x) and array.splice(i, 1) with the start clamped
JSplice2(a, i, x) ==
  LET start == Min(i - 1, Len(a))
  IN  SubSeq(a, 1, start) \o <<x>> \o SubSeq(a, start + 3, Len(a))

JSplice1(a, i) ==
  LET start == Min(i - 1, Len(a))
  IN  SubSeq(a, 1, start) \o SubSeq(a, start + 2, Len(a))

RECURSIVE ValidatorFirstPass(_, _, _)
ValidatorFirstPass(nums, ops, i) ==
  IF i > Len(ops) THEN [nums |-> nums, ops |-> ops]
  ELSE IF IsStr(ops[i], "*") \/ IsStr(ops[i], "/") THEN
    ValidatorFirstPass(
      JSplice2(nums, i, IF IsStr(ops[i], "*")
                          THEN NumMul(NumAt(nums, i), NumAt(nums, i + 1))
                          ELSE NumDiv(NumAt(nums, i), NumAt(nums, i + 1))),
      JSplice1(ops, i), i)
  ELSE ValidatorFirstPass(nums, ops, i + 1)

RECURSIVE ValidatorSecondPass(_, _, _, _)
ValidatorSecondPass(result, nums, ops, i) ==
  IF i > Len(ops) THEN result
  ELSE ValidatorSecondPass(
         IF IsStr(ops[i], "+") THEN NumAdd(result, NumAt(nums, i + 1))
                               ELSE NumSub(result, NumAt(nums, i + 1)),
         nums, ops, i + 1)

\* the second pass over what the first pass left
ValidatorSecondPassOf(p) == ValidatorSecondPass(NumAt(p.nums, 1), p.nums, p.ops, 1)

ValidatorEvaluate(values, operators) ==
  ValidatorSecondPassOf(ValidatorFirstPass(values, operators, 1))

\* Math.abs(expected - result) < 0.001 && !isNaN(expected) && !isNaN(result)
WithinTolerance(expected, result) ==
  /\ NumLess(NumAbs(NumSub(expected, result)), Tolerance)
  /\ ~IsNaN(expected)
  /\ ~IsNaN(result)

(***************************************************************************)
(* validateHorizontalEquations and validateVerticalEquations.              *)
(***************************************************************************)
Sp == <<" ">>

\* `${x}` for a number
NumText(x) == NumToString(x)

\* `${op}` for an operator value
OpText(v) == IF Kind(v) \in {"object", "array"} THEN <<"?">> ELSE JSToString(v)

\* a line that the second mini-equation alone makes valid
DualSecondOnly(isValid1, isValid2) == isValid2

\* isValid1 && isValid2
DualBoth(isValid1, isValid2) == isValid1 /\ isValid2

\* the two mini-equations of a 9x9 line: its rendering and its validity
DualStatus(v0, op1, v1, r1, op2, v2, r2) ==
  [equation |-> NumText(v0) \o Sp \o OpText(op1) \o Sp \o NumText(v1) \o Sp
                  \o <<"=">> \o Sp \o NumText(r1) \o <<",">> \o Sp
                  \o NumText(r1) \o Sp \o OpText(op2) \o Sp \o NumText(v2) \o Sp
                  \o <<"=">> \o Sp \o NumText(r2),
   isValid |-> DualBoth(WithinTolerance(ValidatorEvaluate(<<v0, v1>>, <<op1>>), r1),
                        WithinTolerance(ValidatorEvaluate(<<r1, v2>>, <<op2>>), r2))]

\* the rendering of equationValues and operators up to the shorter of them
RECURSIVE EquationTail(_, _, _)
EquationTail(equationValues, operators, i) ==
  IF i <= Len(operators) /\ i <= Len(equationValues) - 1
    THEN Sp \o OpText(operators[i]) \o Sp \o NumText(equationValues[i + 1])
            \o EquationTail(equationValues, operators, i + 1)
    ELSE <<>>

\* the single equation of a 5x5 / 7x7 line from its values and operators
SingleEquation(equationValues, operators, result) ==
  [equation |-> NumText(equationValues[1])
                  \o EquationTail(equationValues, operators, 1)
                  \o Sp \o <<"=">> \o Sp \o NumText(result),
   isValid |-> WithinTolerance(ValidatorEvaluate(equationValues, operators), result)]

\* result = values[values.length - 1], equationValues = values.slice(0, -1)
SingleStatus(values, operators) ==
  SingleEquation(SubSeq(values, 1, Len(values) - 1), operators, values[Len(values)])

IsValueType(cell) == TypeOf(cell) = "number" \/ TypeOf(cell) = "input"

IsOperatorNotEquals(cell) == TypeOf(cell) = "operator" /\ ~IsStr(ValueOf(cell), "=")

\* if (cell.type === 'number' || cell.type === 'input') values.push(...)
RowValues(values, cell) ==
  IF JTruthy(cell) /\ IsValueType(cell)
    THEN Append(values, ParseOrZero(ValueOf(cell)))
    ELSE values

\* else if (cell.type === 'operator' && cell.value !== '=') operators.push(...)
RowOperators(operators, cell) ==
  IF JTruthy(cell) /\ ~IsValueType(cell) /\ IsOperatorNotEquals(cell)
    THEN Append(operators, ValueOf(cell))
    ELSE operators

\* the values and operators collected from the cells of a row, from col on
RECURSIVE CollectRow(_, _, _, _)
CollectRow(cells, col, values, operators) ==
  IF ~(col < JLength(cells)) THEN [values |-> values, operators |-> operators]
  ELSE CollectRow(cells, col + 1, RowValues(values, JIndex(cells, col)),
                  RowOperators(operators, JIndex(cells, col)))

\* equations.push({ row, equation, isValid })
RowEntry(row, st) == <<[row |-> row, equation |-> st.equation, isValid |-> st.isValid]>>

\* the single equation of a row from the values and operators c collected
SingleRow(c, row) ==
  IF Len(c.values) < 2 \/ Len(c.operators) < 1 THEN <<>>
  ELSE RowEntry(row, SingleStatus(c.values, c.operators))

\* what the row of cells adds to the equations: nothing, or one entry
HorizontalRow(cells, row, gridSize) ==
  IF ~JTruthy(cells) \/ JLength(cells) = 0 THEN <<>>
  ELSE IF gridSize = 9 THEN
    RowEntry(row, DualStatus(ParseOrZero(ValueOf(JIndex(cells, 0))),
                             OrPlus(ValueOf(JIndex(cells, 1))),
                             ParseOrZero(ValueOf(JIndex(cells, 2))),
                             ParseOrZero(ValueOf(JIndex(cells, 4))),
                             OrPlus(ValueOf(JIndex(cells, 5))),
                             ParseOrZero(ValueOf(JIndex(cells, 6))),
                             ParseOrZero(ValueOf(JIndex(cells, 8)))))
  ELSE SingleRow(CollectRow(cells, 0, <<>>, <<>>), row)

\* the equations of the rows row, row + 2, ... of the grid
RECURSIVE HorizontalFrom(_, _, _)
HorizontalFrom(grid, row, gridSize) ==
  IF ~(row < gridSize) THEN <<>>
  ELSE HorizontalRow(JIndex(grid, row), row, gridSize)
         \o HorizontalFrom(grid, row + 2, gridSize)

\* grid is neither null nor undefined
validateHorizontalEquations(grid) == HorizontalFrom(grid, 0, JLength(grid))

\* values.push(parseFloat(cell.value) || 0) for a number or input cell
WithValue(values, cell) ==
  IF IsValueType(cell) THEN Append(values, ParseOrZero(ValueOf(cell))) ELSE values

\* operators.push(opCell.value) for an operator cell other than '=', when the
\* row of opCell is inside the grid
WithOperator(operators, opCell, inside) ==
  IF inside /\ JTruthy(opCell) /\ IsOperatorNotEquals(opCell)
    THEN Append(operators, ValueOf(opCell))
    ELSE operators

\* the values and operators collected down a column, from row on
RECURSIVE CollectColumn(_, _, _, _, _, _)
CollectColumn(grid, col, row, gridSize, values, operators) ==
  IF ~(row < gridSize) THEN [values |-> values, operators |-> operators]
  ELSE
    IF ~JTruthy(JIndex(JIndex(grid, row), col))
      THEN CollectColumn(grid, col, row + 2, gridSize, values, operators)
      ELSE CollectColumn(grid, col, row + 2, gridSize,
                         WithValue(values, JIndex(JIndex(grid, row), col)),
                         WithOperator(operators, JIndex(JIndex(grid, row + 1), col),
                                      row + 1 < gridSize))

\* equations.push({ col, equation, isValid })
ColEntry(col, st) == <<[col |-> col, equation |-> st.equation, isValid |-> st.isValid]>>

\* the single equation of a column from the values and operators c collected
SingleColumn(c, col) ==
  IF Len(c.values) < 2 \/ Len(c.operators) < 1 THEN <<>>
  ELSE ColEntry(col, SingleStatus(c.values, c.operators))

\* grid[row]?.[col]?.value
ColumnValue(grid, row, col) == ValueOf(JIndex(JIndex(grid, row), col))

\* what the column col adds to the equations: nothing, or one entry
VerticalColumn(grid, col, gridSize) ==
  IF gridSize = 9 THEN
    ColEntry(col, DualStatus(ParseOrZero(ColumnValue(grid, 0, col)),
                             OrPlus(ColumnValue(grid, 1, col)),
                             ParseOrZero(ColumnValue(grid, 2, col)),
                             ParseOrZero(ColumnValue(grid, 4, col)),
                             OrPlus(ColumnValue(grid, 5, col)),
                             ParseOrZero(ColumnValue(grid, 6, col)),
                             ParseOrZero(ColumnValue(grid, 8, col))))
  ELSE SingleColumn(CollectColumn(grid, col, 0, gridSize, <<>>, <<>>), col)

\* the equations of the columns col, col + 2, ... of the grid
RECURSIVE VerticalFrom(_, _, _, _)
VerticalFrom(grid, col, gridSize, colSize) ==
  IF ~(col < colSize) THEN <<>>
  ELSE VerticalColumn(grid, col, gridSize) \o VerticalFrom(grid, col + 2, gridSize, colSize)

\* grid is neither null nor undefined
validateVerticalEquations(grid) ==
  LET len0 == JLength(JIndex(grid, 0))
      colSize == IF len0 > 0 THEN len0 ELSE 0
  IN  VerticalFrom(grid, 0, JLength(grid), colSize)

\* equations.every(eq => eq.isValid)
EveryValid(equations) == \A i \in 1..Len(equations) : equations[i].isValid

(***************************************************************************)
(* The copies of the evaluator: validateVerticalEquations (server) and     *)
(* getEquationStatus (client).                                             *)
(***************************************************************************)
\* the helper evaluateEquation of validateVerticalEquations
ValidatorEvaluateVertical(values, operators) ==
  ValidatorSecondPassOf(ValidatorFirstPass(values, operators, 1))

\* the first pass of the client's helper
RECURSIVE ClientFirstPass(_, _, _)
ClientFirstPass(nums, ops, i) ==
  IF i > Len(ops) THEN [nums |-> nums, ops |-> ops]
  ELSE IF IsStr(ops[i], "*") \/ IsStr(ops[i], "/") THEN
    ClientFirstPass(
      JSplice2(nums, i, IF IsStr(ops[i], "*")
                          THEN NumMul(NumAt(nums, i), NumAt(nums, i + 1))
                          ELSE NumDiv(NumAt(nums, i), NumAt(nums, i + 1))),
      JSplice1(ops, i), i)
  ELSE ClientFirstPass(nums, ops, i + 1)

\* a client that adds whatever the operator is
ClientStepAdding(result, op, next) == NumAdd(result, next)

\* switch (ops[i]) { case '+': ...; case '-': ...; default: result = 0 }
ClientStep(result, op, next) ==
  IF IsStr(op, "+") THEN NumAdd(result, next)
  ELSE IF IsStr(op, "-") THEN NumSub(result, next)
  ELSE Zero(FALSE)

RECURSIVE ClientSecondPass(_, _, _, _)
ClientSecondPass(result, nums, ops, i) ==
  IF i > Len(ops) THEN result
  ELSE ClientSecondPass(ClientStep(result, ops[i], NumAt(nums, i + 1)), nums, ops, i + 1)

ClientSecondPassOf(p) == ClientSecondPass(NumAt(p.nums, 1), p.nums, p.ops, 1)

\* the helper evaluateEquation of getEquationStatus
ClientEvaluate(values, operators) == ClientSecondPassOf(ClientFirstPass(values, operators, 1))

\* no copy has evaluated anything
NoCopies == [horizontal |-> NaN, vertical |-> NaN, client |-> NaN]

(***************************************************************************)
(* The handler of POST /api/validate-solution.                             *)
(***************************************************************************)
NoResponse == [status |-> 0, isValid |-> FALSE, horizontalEquations |-> <<>>,
               verticalEquations |-> <<>>, message |-> ""]

\* a validator that throws for every grid that is not an array
ThrowsUnlessArray(grid) == Kind(grid) # "array"

\* grid.length throws a TypeError for these
ThrowsOnLength(grid) == Kind(grid) \in {"null", "undefined"}

\* res.json({ isValid, horizontalEquations, verticalEquations })
StatusObject(horizontalValid, verticalValid) ==
  [status |-> 200,
   isValid |-> EveryValid(horizontalValid) /\ EveryValid(verticalValid),
   horizontalEquations |-> horizontalValid,
   verticalEquations |-> verticalValid,
   message |-> ""]

ValidateSolutionHandler(grid) ==
  IF ThrowsOnLength(grid) THEN
    [status |-> 500, isValid |-> FALSE, horizontalEquations |-> <<>>,
     verticalEquations |-> <<>>, message |-> "Failed to validate solution"]
  ELSE StatusObject(validateHorizontalEquations(grid), validateVerticalEquations(grid))

(***************************************************************************)
(* generatePuzzle as a state machine, followed by the check of the         *)
(* returned solution through POST /api/validate-solution.                  *)
(***************************************************************************)
VARIABLES
  genDifficulty,  \* the argument of generatePuzzle
  pc,             \* the position in generatePuzzle, in a request or in a call
  genAttempts,    \* the local attempts of generatePuzzle
  genPasses,      \* the local attempt of generateDualEquationValueGrid
  genPuzzle,      \* the local puzzle: what the last attempt returned
  genReturned,    \* the value generatePuzzle returned
  reqGrid,        \* the grid of the body of the validation request
  resBody,        \* the response to the validation request
  evalValues,     \* the values passed to evaluateFullEquation
  evalOperators,  \* the operators passed to evaluateFullEquation
  evalResult,     \* what evaluateFullEquation returned
  evalCopies,     \* what the validators' copies of the evaluator returned
  puzzle,         \* the client's query data: the puzzle the server sent
  gameState,      \* the state of useGameLogic: grid, isCompleted, hintsUsed
  gameSessionId,  \* the state of useGameLogic: the id of the game session
  network,        \* the responses on their way to the client
  sessions,       \* the game sessions the server stores
  cliStatus,      \* what getEquationStatus returned
  users,          \* the users of MemStorage
  requests        \* the POST /api/auth/register requests being handled

vars == <<genDifficulty, pc, genAttempts, genPasses, genPuzzle, genReturned, reqGrid, resBody,
          evalValues, evalOperators, evalResult, evalCopies,
          puzzle, gameState, gameSessionId, network, sessions, cliStatus, users, requests>>

clientVars == <<puzzle, gameState, gameSessionId, network, sessions>>

authVars == <<users, requests>>

\* the variables of the client and of the registration route
appVars == <<clientVars, cliStatus, authVars>>

\* no puzzle has arrived
NoData == [ok |-> FALSE, id |-> 0, grid |-> <<>>, solution |-> <<>>]

\* useState: the initial game state, no game session
AppInit ==
  /\ puzzle = NoData
  /\ gameState = [grid |-> <<>>, isCompleted |-> FALSE, hintsUsed |-> 0]
  /\ gameSessionId = 0
  /\ network = {}
  /\ sessions = <<>>
  /\ cliStatus = [horizontal |-> <<>>, vertical |-> <<>>]
  /\ users = <<>>
  /\ requests = <<>>

evalVars == <<evalValues, evalOperators, evalResult, evalCopies>>

genVars == <<genDifficulty, genAttempts, genPasses, genPuzzle, genReturned>>

\* one budget for every size
maxAttemptsFlat(gridSize) == 100

maxAttempts(gridSize) == IF gridSize = 9 THEN 1000 ELSE IF gridSize = 7 THEN 300 ELSE 100

\* the attempts the loop is followed for
AttemptBudget(gridSize) == Min(maxAttempts(gridSize), AttemptCap)

\* the condition of the while loop
LoopCond(n, gridSize) == n < AttemptBudget(gridSize)

\* a loop that forgets to count the failed attempt
NextAttemptsStuck(n) == n

\* attempts++
NextAttempts(n) == n + 1

AttemptOutcomesEasy == SmallAttemptOutcomes(AdjustedConfig("easy"))

AttemptOutcomesMedium == SmallAttemptOutcomes(AdjustedConfig("medium"))

AttemptOutcomesHard == DualAttemptOutcomes(AdjustedConfig("hard"))

\* what the attempt of one loop iteration can return
AttemptOutcomes(d) ==
  IF d = "easy" THEN AttemptOutcomesEasy
  ELSE IF d = "medium" THEN AttemptOutcomesMedium
  ELSE AttemptOutcomesHard

Init ==
  /\ genDifficulty \in Difficulties
  /\ pc = "loop"
  /\ genAttempts = 0
  /\ genPasses = 0
  /\ genPuzzle = NoPuzzle
  /\ genReturned = NoPuzzle
  /\ reqGrid = Undefined
  /\ resBody = NoResponse
  /\ evalValues = <<>>
  /\ evalOperators = <<>>
  /\ evalResult = NullNum
  /\ evalCopies = NoCopies
  /\ AppInit

\* one attempt inside the try block
Attempt ==
  /\ pc = "loop"
  /\ LoopCond(genAttempts, AdjustedConfig(genDifficulty).gridSize)
  /\ genPuzzle' \in AttemptOutcomes(genDifficulty)
  /\ pc' = "check"
  /\ UNCHANGED <<appVars, genDifficulty, genAttempts, genPasses, genReturned, reqGrid, resBody, evalVars>>

\* if (puzzle) return puzzle
ReturnPuzzle ==
  /\ pc = "check"
  /\ genPuzzle.ok
  /\ genReturned' = genPuzzle
  /\ pc' = "done"
  /\ UNCHANGED <<appVars, genDifficulty, genAttempts, genPasses, genPuzzle, reqGrid, resBody, evalVars>>

\* the attempt returned null: attempts++ and back to the loop condition
Retry ==
  /\ pc = "check"
  /\ ~genPuzzle.ok
  /\ genAttempts' = NextAttempts(genAttempts)
  /\ pc' = "loop"
  /\ UNCHANGED <<appVars, genDifficulty, genPasses, genPuzzle, genReturned, reqGrid, resBody, evalVars>>

\* the loop is over: return generateFallbackPuzzle(adjustedConfig)
Fallback ==
  /\ pc = "loop"
  /\ ~LoopCond(genAttempts, AdjustedConfig(genDifficulty).gridSize)
  /\ genReturned' = generateFallbackPuzzle(AdjustedConfig(genDifficulty))
  /\ pc' = "done"
  /\ UNCHANGED <<appVars, genDifficulty, genAttempts, genPasses, genPuzzle, reqGrid, resBody, evalVars>>

\* the solution grid of the returned puzzle is posted and validated
ValidateReturned ==
  /\ pc = "done"
  /\ reqGrid' = ToJSON(genReturned.solution)
  /\ resBody' = ValidateSolutionHandler(reqGrid')
  /\ pc' = "validated"
  /\ UNCHANGED <<appVars, genDifficulty, genAttempts, genPasses, genPuzzle, genReturned, evalVars>>

Next == Attempt \/ ReturnPuzzle \/ Retry \/ Fallback \/ ValidateReturned

Spec == Init /\ [][Next]_vars

\* a step of the call of generatePuzzle
GenerateStep == Attempt \/ ReturnPuzzle \/ Retry \/ Fallback

\* generatePuzzle is synchronous code: once called it keeps taking steps
FairSpec == Spec /\ WF_vars(GenerateStep)

(***************************************************************************)
(* The loops of generatePuzzle and of generateDualEquationValueGrid        *)
(* followed to their own bounds.  What an attempt constructs does not      *)
(* matter to the loops, so an attempt is followed with two outcomes: null  *)
(* and one constructed puzzle.                                             *)
(***************************************************************************)
ConstructedEasy == CHOOSE p \in AttemptOutcomesEasy : p.ok

ConstructedMedium == CHOOSE p \in AttemptOutcomesMedium : p.ok

ConstructedHard == CHOOSE p \in AttemptOutcomesHard : p.ok

Constructed(d) ==
  IF d = "easy" THEN ConstructedEasy
  ELSE IF d = "medium" THEN ConstructedMedium
  ELSE ConstructedHard

LoopOutcomes(d) == {NoPuzzle, Constructed(d)}

\* while (attempts < maxAttempts)
WhileCond(n, gridSize) == n < maxAttempts(gridSize)

\* for (let attempt = 0; attempt < maxAttempts; attempt++)
ForCond(attempt) == attempt < ValueGridPasses

\* an iteration for size 5 or 7: attemptPuzzleGeneration(adjustedConfig)
LoopAttempt ==
  /\ pc = "loop"
  /\ AdjustedConfig(genDifficulty).gridSize # 9
  /\ WhileCond(genAttempts, AdjustedConfig(genDifficulty).gridSize)
  /\ genPuzzle' \in LoopOutcomes(genDifficulty)
  /\ pc' = "check"
  /\ UNCHANGED <<appVars, genDifficulty, genAttempts, genPasses, genReturned, reqGrid, resBody, evalVars>>

\* an iteration for size 9: attemptPuzzleGeneration9x9 enters generateDualEquationValueGrid
LoopAttempt9x9 ==
  /\ pc = "loop"
  /\ AdjustedConfig(genDifficulty).gridSize = 9
  /\ WhileCond(genAttempts, AdjustedConfig(genDifficulty).gridSize)
  /\ genPasses' = 0
  /\ pc' = "pass"
  /\ UNCHANGED <<appVars, genDifficulty, genAttempts, genPuzzle, genReturned, reqGrid, resBody, evalVars>>

\* a pass of the for loop that ends in continue
PassContinue ==
  /\ pc = "pass"
  /\ ForCond(genPasses)
  /\ genPasses' = genPasses + 1
  /\ UNCHANGED <<appVars, genDifficulty, pc, genAttempts, genPuzzle, genReturned, reqGrid, resBody, evalVars>>

\* a pass that returns its grid, from which the puzzle is built
PassReturn ==
  /\ pc = "pass"
  /\ ForCond(genPasses)
  /\ genPuzzle' = Constructed(genDifficulty)
  /\ pc' = "check"
  /\ UNCHANGED <<appVars, genDifficulty, genAttempts, genPasses, genReturned, reqGrid, resBody, evalVars>>

\* the for loop is over: return null
PassesOver ==
  /\ pc = "pass"
  /\ ~ForCond(genPasses)
  /\ genPuzzle' = NoPuzzle
  /\ pc' = "check"
  /\ UNCHANGED <<appVars, genDifficulty, genAttempts, genPasses, genReturned, reqGrid, resBody, evalVars>>

\* the while loop is over: return generateFallbackPuzzle(adjustedConfig)
LoopFallback ==
  /\ pc = "loop"
  /\ ~WhileCond(genAttempts, AdjustedConfig(genDifficulty).gridSize)
  /\ genReturned' = generateFallbackPuzzle(AdjustedConfig(genDifficulty))
  /\ pc' = "done"
  /\ UNCHANGED <<appVars, genDifficulty, genAttempts, genPasses, genPuzzle, reqGrid, resBody, evalVars>>

LoopNext ==
  \/ LoopAttempt
  \/ LoopAttempt9x9
  \/ PassContinue
  \/ PassReturn
  \/ PassesOver
  \/ ReturnPuzzle
  \/ Retry
  \/ LoopFallback

LoopSpec == Init /\ [][LoopNext]_vars

(***************************************************************************)
(* evaluateFullEquation applied to bounded operand and operator sequences. *)
(***************************************************************************)
\* the operands: -EvalNeg .. EvalPos and the operands of the documented examples
EvalValues == (-EvalNeg..EvalPos) \cup {6, 10}

EvalOperators == {"+", "-", "*", "/"}

SeqsOfLen(S, n) == [1..n -> S]

EvalInit ==
  /\ pc = "evaluate"
  /\ \E n \in 1..EvalLen :
       /\ evalValues \in SeqsOfLen(EvalValues, n)
       /\ evalOperators \in SeqsOfLen(EvalOperators, n - 1)
  /\ evalResult = NullNum
  /\ evalCopies = NoCopies
  /\ AppInit
  /\ genDifficulty = "easy"
  /\ genAttempts = 0
  /\ genPasses = 0
  /\ genPuzzle = NoPuzzle
  /\ genReturned = NoPuzzle
  /\ reqGrid = Undefined
  /\ resBody = NoResponse

Evaluate ==
  /\ pc = "evaluate"
  /\ evalResult' = evaluateFullEquation(evalValues, evalOperators)
  /\ pc' = "evaluated"
  /\ UNCHANGED <<appVars, genVars, reqGrid, resBody, evalValues, evalOperators, evalCopies>>

EvalNext == Evaluate

EvalSpec == EvalInit /\ [][EvalNext]_vars

(***************************************************************************)
(* The same operands and operators given to the generator's evaluator and  *)
(* then to every copy of the validators.                                   *)
(***************************************************************************)
\* the operands as the numbers and the operators as the strings of a grid
AsNumbers(values) == [i \in 1..Len(values) |-> FromInt(values[i])]

AsStrings(operators) == [i \in 1..Len(operators) |-> JStr(<<operators[i]>>)]

EvaluateCopies ==
  /\ pc = "evaluated"
  /\ evalCopies' =
       [horizontal |-> ValidatorEvaluate(AsNumbers(evalValues), AsStrings(evalOperators)),
        vertical |-> ValidatorEvaluateVertical(AsNumbers(evalValues),
                                               AsStrings(evalOperators)),
        client |-> ClientEvaluate(AsNumbers(evalValues), AsStrings(evalOperators))]
  /\ pc' = "compared"
  /\ UNCHANGED <<appVars, genVars, reqGrid, resBody, evalValues, evalOperators, evalResult>>

EquivNext == Evaluate \/ EvaluateCopies

EquivSpec == EvalInit /\ [][EquivNext]_vars

(***************************************************************************)
(* Properties of generatePuzzle and of the check of its solution.          *)
(***************************************************************************)
Returned == pc \in {"done", "validated"}

IsFallback == genReturned = generateFallbackPuzzle(AdjustedConfig(genDifficulty))

\* the positions of a grid, counted from 1
Positions(grid) == {<<r, c>> \in (1..Len(grid)) \X (1..Len(grid)) : c <= Len(grid[r])}

\* C1: the solution of every returned puzzle is accepted by the validator:
\* the response is a status with isValid = true and every horizontal and
\* vertical line valid
RoundTripSolvable ==
  pc = "validated" =>
    /\ resBody.status = 200
    /\ resBody.isValid
    /\ EveryValid(resBody.horizontalEquations)
    /\ EveryValid(resBody.verticalEquations)

\* C2: the solution of the fallback puzzle passes validation, every even
\* row and every even column forming a correct equation
FallbackSolvable ==
  (pc = "validated" /\ IsFallback) =>
    /\ resBody.isValid
    /\ Len(resBody.horizontalEquations) > 0
    /\ Len(resBody.verticalEquations) > 0

\* C3: generatePuzzle terminates for each difficulty, whatever the attempts
\* return, and what it returns is a {grid, solution} pair
GenerationTerminates == <>(Returned /\ genReturned.ok)

\* C3: the fallback returned after every attempt of the loop failed
ReturnedAfterAllAttemptsFailed ==
  /\ pc = "done"
  /\ genAttempts = AttemptBudget(AdjustedConfig(genDifficulty).gridSize)
  /\ ~genPuzzle.ok
  /\ genReturned.ok
  /\ IsFallback

\* C8 as stated: every non-editable cell of the player grid of a returned
\* puzzle carries a non-empty value equal to the value of the solution cell
GivenCellsNonEmpty ==
  Returned =>
    \A p \in Positions(genReturned.grid) :
      LET cell == genReturned.grid[p[1]][p[2]]
      IN  ~cell.isEditable =>
            /\ cell.value # Empty
            /\ cell.value = genReturned.solution[p[1]][p[2]].value

\* C8: every non-editable cell of the player grid of a returned puzzle has
\* the value of the solution cell at its position, and that value is not
\* empty when the cell is a Number or an Operator (a Blocked cell is not
\* editable and is empty in both grids)
GivenCellInvariance ==
  Returned =>
    \A p \in Positions(genReturned.grid) :
      LET cell == genReturned.grid[p[1]][p[2]]
      IN  ~cell.isEditable =>
            /\ cell.value = genReturned.solution[p[1]][p[2]].value
            /\ cell.type \in {"number", "operator", "blocked"}
            /\ cell.type \in {"number", "operator"} => cell.value # Empty
            /\ cell.type = "blocked" => cell.value = Empty

\* C8: a constructed puzzle is returned, with a given Number in its grid
ConstructedWithGivenNumber ==
  /\ pc = "done"
  /\ ~IsFallback
  /\ \E p \in Positions(genReturned.grid) :
       /\ genReturned.grid[p[1]][p[2]].type = "number"
       /\ ~genReturned.grid[p[1]][p[2]].isEditable

\* C9: the player grid and the solution grid of a returned puzzle have the
\* same shape and at every position the same type, isEditable, row and col;
\* an Input cell is empty in the player grid and not in the solution grid,
\* and every other cell has the same value in both
GridsDifferOnlyInInputs ==
  Returned =>
    /\ Len(genReturned.grid) = Len(genReturned.solution)
    /\ \A r \in 1..Len(genReturned.grid) :
         Len(genReturned.grid[r]) = Len(genReturned.solution[r])
    /\ \A p \in Positions(genReturned.grid) :
         LET cell == genReturned.grid[p[1]][p[2]]
             sol == genReturned.solution[p[1]][p[2]]
         IN  /\ cell.type = sol.type
             /\ cell.isEditable = sol.isEditable
             /\ cell.row = sol.row /\ cell.row = p[1] - 1
             /\ cell.col = sol.col /\ cell.col = p[2] - 1
             /\ IF cell.type = "input"
                  THEN cell.value = Empty /\ sol.value # Empty
                  ELSE cell.value = sol.value

\* C9: a 9x9 puzzle is returned whose grid has Input cells
NineByNineWithInputs ==
  /\ pc = "done"
  /\ Len(genReturned.grid) = 9
  /\ ~IsFallback
  /\ \E p \in Positions(genReturned.grid) : genReturned.grid[p[1]][p[2]].type = "input"

(***************************************************************************)
(* Properties of evaluateFullEquation.                                     *)
(***************************************************************************)
\* the value of values[1] operators[1] values[2] ... by the usual rules: a
\* running sum of signed terms, each term a left-to-right run of * and /
RECURSIVE PrecedenceValue(_, _, _, _, _, _)
PrecedenceValue(values, ops, i, sum, sign, term) ==
  IF i > Len(ops) THEN Some(sum + sign * term)
  ELSE LET v == values[i + 1]
       IN  IF ops[i] = "*" THEN PrecedenceValue(values, ops, i + 1, sum, sign, term * v)
           ELSE IF ops[i] = "/" THEN
             IF v = 0 \/ term % Abs(v) # 0 THEN NullNum
             ELSE PrecedenceValue(values, ops, i + 1, sum, sign,
                                  (IF v < 0 THEN -term ELSE term) \div Abs(v))
           ELSE PrecedenceValue(values, ops, i + 1, sum + sign * term,
                                IF ops[i] = "+" THEN 1 ELSE -1, v)

Evaluated(values, ops) == pc = "evaluated" /\ evalValues = values /\ evalOperators = ops

\* C5: evaluateFullEquation gives the value by precedence (* and / collapsed
\* left to right, then + and - folded left to right), the operand itself for
\* a single operand, and fails exactly on a division by zero or a
\* non-integer quotient
PrecedenceCorrect ==
  /\ pc = "evaluated" =>
       evalResult = PrecedenceValue(evalValues, evalOperators, 1, 0, 1, evalValues[1])
  /\ (pc = "evaluated" /\ Len(evalValues) = 1) => evalResult = Some(evalValues[1])
  /\ Evaluated(<<2, 3, 4>>, <<"+", "*">>) => evalResult = Some(14)
  /\ Evaluated(<<10, 2, 3>>, <<"/", "+">>) => evalResult = Some(8)
  /\ Evaluated(<<6, 0>>, <<"/">>) => evalResult = NullNum

\* C5: a sum followed by two products has been evaluated by precedence
ChainEvaluatedByPrecedence ==
  /\ Evaluated(<<1, 2, 3, 4>>, <<"+", "*", "*">>)
  /\ evalResult = Some(25)

(***************************************************************************)
(* POST /api/validate-solution applied to a bounded family of requests.    *)
(***************************************************************************)
NumberCell(value, row, col) == Cell("number", value, FALSE, row, col)

InputCell(value, row, col) == Cell("input", value, TRUE, row, col)

EqualsCell(row, col) == OperatorCell("=", row, col)

\* a row of operators at the even columns, blocked cells between them
OperatorRow(op, row, size) ==
  [c \in 1..size |-> IF c % 2 = 1 THEN OperatorCell(op, row, c - 1)
                                  ELSE BlockedCell(row, c - 1)]

\* a 5x5 grid in the layout of the easy puzzles: the first row is
\* v0 op v1 = r, the other rows are 1 + 1 = 2 and 3 + k = 3 + k
LineGrid5(v0, op, v1, r, k) ==
  JArr(<< JArr(<<NumberCell(v0, 0, 0), OperatorCell(op, 0, 1), InputCell(v1, 0, 2),
                 EqualsCell(0, 3), InputCell(r, 0, 4)>>),
          JArr(OperatorRow("+", 1, 5)),
          JArr(<<InputCell(JInt(1), 2, 0), OperatorCell("+", 2, 1),
                 InputCell(JInt(1), 2, 2), EqualsCell(2, 3), InputCell(JInt(2), 2, 4)>>),
          JArr(OperatorRow("=", 3, 5)),
          JArr(<<InputCell(JInt(3), 4, 0), OperatorCell("+", 4, 1),
                 InputCell(JInt(k), 4, 2), EqualsCell(4, 3),
                 NumberCell(JInt(3 + k), 4, 4)>>) >>)

RequestOperators == {"+", "-", "*", "/"}

FirstOperands == {JInt(0), JInt(2), JInt(5)}

SecondOperands == {Empty, Null, Undefined, JInt(0), JInt(3), JStr(<<"3">>)}

DecimalResults ==
  {JStr(<<"4", ".", "9", "9", "9", "9", "9", "9", "9">>),
   JStr(<<"5", ".", "0", "0", "0", "0", "0", "0", "1">>),
   JStr(<<"5", ".", "0", "1">>),
   JStr(<<"5", ".", "0", "0", "1">>),
   JStr(<<"5", ".", "0", "0", "5">>),
   JStr(<<"5", ".", "0", "0", "0", "9">>),
   JNum(Rat(49999999, 10000000)),
   JNum(Rat(50000001, 10000000))}

StatedResults == {Empty, JInt(2), JInt(5)} \cup DecimalResults

LineGrids5 ==
  {LineGrid5(v0, op, v1, r, k) :
     v0 \in FirstOperands, op \in RequestOperators, v1 \in SecondOperands,
     r \in StatedResults, k \in {1, 4}}

\* the seven cells of a 9x9 line, in the kinds the 9x9 puzzles give them:
\* v1 and v2 are given numbers (strings), v0, r1 and r2 are inputs
DualLines ==
  [v0 : {Empty, JInt(1), JInt(3)},
   op1 : RequestOperators,
   v1 : {JStr(<<"2">>), JStr(<<"3">>)},
   r1 : {Empty, JInt(1), JInt(5), JInt(6)},
   op2 : RequestOperators,
   v2 : {JStr(<<"1">>), JStr(<<"2">>)},
   r2 : {Empty, JInt(3), JInt(5), JInt(6)}]

\* the cell of a 9x9 line at position i (0, 2, 4, 6, 8 values; 1, 5
\* operators; 3, 7 equals signs)
DualLineCell(line, i, row, col) ==
  IF i = 0 THEN InputCell(line.v0, row, col)
  ELSE IF i = 1 THEN OperatorCell(line.op1, row, col)
  ELSE IF i = 2 THEN NumberCell(line.v1, row, col)
  ELSE IF i = 4 THEN InputCell(line.r1, row, col)
  ELSE IF i = 5 THEN OperatorCell(line.op2, row, col)
  ELSE IF i = 6 THEN NumberCell(line.v2, row, col)
  ELSE IF i = 8 THEN InputCell(line.r2, row, col)
  ELSE EqualsCell(row, col)

\* a 9x9 grid with the line along its first row and down its first column
CrossGrid9(line) ==
  JArr([r \in 1..9 |->
         JArr([c \in 1..9 |->
                IF r = 1 THEN DualLineCell(line, c - 1, 0, c - 1)
                ELSE IF c = 1 THEN DualLineCell(line, r - 1, r - 1, 0)
                ELSE BlockedCell(r - 1, c - 1)])])

CrossGrids9 == {CrossGrid9(line) : line \in DualLines}

\* requests whose grid is missing or is not a grid of cells
MalformedGrids ==
  {Undefined, Null, JInt(5), JStr(<<"a", "b", "c">>), JArr(<<>>),
   JArr(<<Null>>), JArr(<<JArr(<<>>)>>), JArr(<<JInt(1), JInt(2), JInt(3)>>),
   JArr(<<JStr(<<"1", "+", "1">>), Null, JInt(7)>>),
   \* ragged rows
   JArr(<<JArr(<<NumberCell(JInt(1), 0, 0), OperatorCell("+", 0, 1),
                 InputCell(JInt(1), 0, 2), EqualsCell(0, 3), InputCell(JInt(2), 0, 4)>>),
          JArr(<<OperatorCell("+", 1, 0)>>),
          JArr(<<InputCell(JInt(1), 2, 0), OperatorCell("+", 2, 1)>>)>>),
   \* cells that are not cell objects, cells of unknown type, cells without value
   JArr(<<JArr(<<Null, JInt(3), JStr(<<"x">>), Undefined, JArr(<<>>)>>),
          JArr(<<JInt(1)>>),
          JArr(<<Cell("digit", JInt(1), TRUE, 2, 0), Cell("input", Undefined, TRUE, 2, 1),
                 Cell("operator", Null, FALSE, 2, 2), Cell("input", JStr(<<"a">>), TRUE, 2, 3),
                 Cell("number", JNum(NaN), FALSE, 2, 4)>>)>>),
   \* nine rows, none of them a row of cells
   JArr([r \in 1..9 |-> IF r % 2 = 1 THEN Null ELSE JInt(r)]),
   JArr([r \in 1..9 |-> JArr(<<>>)]),
   JArr([r \in 1..9 |-> JArr(<<Cell("input", Undefined, TRUE, r - 1, 0)>>)]),
   \* five rows of Blocked cells
   JArr([r \in 1..5 |-> JArr([c \in 1..5 |-> BlockedCell(r - 1, c - 1)])])}

RequestGrids == LineGrids5 \cup CrossGrids9 \cup MalformedGrids

ValInit ==
  /\ pc = "request"
  /\ reqGrid \in RequestGrids
  /\ resBody = NoResponse
  /\ genDifficulty = "easy"
  /\ genAttempts = 0
  /\ genPasses = 0
  /\ genPuzzle = NoPuzzle
  /\ genReturned = NoPuzzle
  /\ evalValues = <<>>
  /\ evalOperators = <<>>
  /\ evalResult = NullNum
  /\ evalCopies = NoCopies
  /\ AppInit

\* the handler answers the request
ValidateRequest ==
  /\ pc = "request"
  /\ resBody' = ValidateSolutionHandler(reqGrid)
  /\ pc' = "responded"
  /\ UNCHANGED <<appVars, genVars, reqGrid, evalVars>>

ValNext == ValidateRequest

ValSpec == ValInit /\ [][ValNext]_vars

(***************************************************************************)
(* Properties of POST /api/validate-solution.                              *)
(***************************************************************************)
Responded == pc = "responded"

\* the grid is a square of cell objects of the given size
IsCellGrid(grid, size) ==
  /\ Kind(grid) = "array"
  /\ Len(grid.a) = size
  /\ \A r \in 1..size :
       /\ Kind(grid.a[r]) = "array"
       /\ Len(grid.a[r].a) = size
       /\ \A c \in 1..size : Kind(grid.a[r].a[c]) = "object"

\* the cell at row, col, counted from 0
CellAt(grid, row, col) == grid.a[row + 1].a[col + 1]

IsBlank(value) == value \in {Empty, Null, Undefined}

IsBlankInput(cell) == cell.type = "input" /\ IsBlank(cell.value)

RowHasBlankInput(grid, row) ==
  \E col \in 0..(Len(grid.a) - 1) : IsBlankInput(CellAt(grid, row, col))

ColHasBlankInput(grid, col) ==
  \E row \in 0..(Len(grid.a) - 1) : IsBlankInput(CellAt(grid, row, col))

\* C4: a line with a blank Input cell is never reported valid, and a grid
\* with a blank Input cell is never reported valid as a whole
CompletenessGating ==
  (Responded /\ (IsCellGrid(reqGrid, 5) \/ IsCellGrid(reqGrid, 9))) =>
    /\ \A i \in 1..Len(resBody.horizontalEquations) :
         LET eq == resBody.horizontalEquations[i]
         IN  RowHasBlankInput(reqGrid, eq.row) => ~eq.isValid
    /\ \A i \in 1..Len(resBody.verticalEquations) :
         LET eq == resBody.verticalEquations[i]
         IN  ColHasBlankInput(reqGrid, eq.col) => ~eq.isValid
    /\ (\E row \in 0..(Len(reqGrid.a) - 1) : RowHasBlankInput(reqGrid, row))
         => ~resBody.isValid

\* the number a cell is read as, and the character of an operator cell
ReadNumber(grid, row, col) == ParseOrZero(CellAt(grid, row, col).value)

ReadOperator(grid, row, col) ==
  LET value == CellAt(grid, row, col).value
  IN  IF value.k = "string" /\ Len(value.s) = 1 THEN value.s[1] ELSE "+"

\* a mini-equation a op b = r over integers
MiniHolds(a, op, b, r) ==
  IF op = "+" THEN a + b = r
  ELSE IF op = "-" THEN a - b = r
  ELSE IF op = "*" THEN a * b = r
  ELSE b # 0 /\ a = r * b

\* both mini-equations of the line whose cells are at(0) .. at(8)
BothMiniHold(at(_), opAt(_)) ==
  /\ MiniHolds(at(0).n, opAt(1), at(2).n, at(4).n)
  /\ MiniHolds(at(4).n, opAt(5), at(6).n, at(8).n)

RowBothHold(grid, row) ==
  LET at(i) == ReadNumber(grid, row, i)
      opAt(i) == ReadOperator(grid, row, i)
  IN  BothMiniHold(at, opAt)

ColBothHold(grid, col) ==
  LET at(i) == ReadNumber(grid, i, col)
      opAt(i) == ReadOperator(grid, i, col)
  IN  BothMiniHold(at, opAt)

\* the line 3 + 2 = 6, 6 - 1 = 5
WrongIntermediate ==
  [v0 |-> JInt(3), op1 |-> "+", v1 |-> JStr(<<"2">>), r1 |-> JInt(6),
   op2 |-> "-", v2 |-> JStr(<<"1">>), r2 |-> JInt(5)]

\* C6: a row or column of a 9x9 grid is reported valid only if both of its
\* mini-equations hold; the line 3 + 2 = 6, 6 - 1 = 5 is reported invalid
DualIndependence ==
  (Responded /\ IsCellGrid(reqGrid, 9)) =>
    /\ Len(resBody.horizontalEquations) = 5
    /\ Len(resBody.verticalEquations) = 5
    /\ \A i \in 1..5 :
         LET eq == resBody.horizontalEquations[i]
         IN  eq.row = 2 * (i - 1) /\ (eq.isValid => RowBothHold(reqGrid, eq.row))
    /\ \A i \in 1..5 :
         LET eq == resBody.verticalEquations[i]
         IN  eq.col = 2 * (i - 1) /\ (eq.isValid => ColBothHold(reqGrid, eq.col))
    /\ reqGrid = CrossGrid9(WrongIntermediate) =>
         /\ ~resBody.horizontalEquations[1].isValid
         /\ ~resBody.verticalEquations[1].isValid

\* C6: the line 3 + 2 = 6, 6 - 1 = 5 has been reported invalid along the
\* first row and down the first column, its second mini-equation holding
WrongIntermediateRejected ==
  /\ Responded
  /\ reqGrid = CrossGrid9(WrongIntermediate)
  /\ MiniHolds(6, "-", 1, 5)
  /\ ~resBody.horizontalEquations[1].isValid
  /\ ~resBody.verticalEquations[1].isValid

\* a number with at most seven decimals as an integer count of 1e-7
Scaled(x) == x.n * (Pow10(7) \div x.d)

\* |x op y - z| < 0.001 in counts of 1e-7; x and y are integers when op is
\* "*", y is an integer when op is "/"
AcceptedScaled(x, op, y, z) ==
  IF op = "+" THEN Abs(Scaled(x) + Scaled(y) - Scaled(z)) < Pow10(4)
  ELSE IF op = "-" THEN Abs(Scaled(x) - Scaled(y) - Scaled(z)) < Pow10(4)
  ELSE IF op = "*" THEN Abs(x.n * y.n * Pow10(7) - Scaled(z)) < Pow10(4)
  ELSE y.n # 0 /\ Abs(Scaled(x) - Scaled(z) * y.n) < Pow10(4) * Abs(y.n)

RowAccepted(grid, row) ==
  AcceptedScaled(ReadNumber(grid, row, 0), ReadOperator(grid, row, 1),
                 ReadNumber(grid, row, 2), ReadNumber(grid, row, 4))

ColAccepted(grid, col) ==
  AcceptedScaled(ReadNumber(grid, 0, col), ReadOperator(grid, 1, col),
                 ReadNumber(grid, 2, col), ReadNumber(grid, 4, col))

\* the first row of the grid reads 2 + 3 = r
FirstRowStates(r) ==
  /\ IsCellGrid(reqGrid, 5)
  /\ CellAt(reqGrid, 0, 0).value = JInt(2)
  /\ CellAt(reqGrid, 0, 1).value = JStr(<<"+">>)
  /\ CellAt(reqGrid, 0, 2).value = JInt(3)
  /\ CellAt(reqGrid, 0, 4).value = r

IsStatusObject(body) ==
  /\ body.status = 200
  /\ body.isValid \in BOOLEAN
  /\ \A i \in 1..Len(body.horizontalEquations) :
       LET eq == body.horizontalEquations[i]
       IN  eq.row \in Nat /\ eq.isValid \in BOOLEAN /\ eq.equation # <<>>
  /\ \A i \in 1..Len(body.verticalEquations) :
       LET eq == body.verticalEquations[i]
       IN  eq.col \in Nat /\ eq.isValid \in BOOLEAN /\ eq.equation # <<>>
  /\ body.isValid = (EveryValid(body.horizontalEquations)
                       /\ EveryValid(body.verticalEquations))

OperandCount(cells) ==
  Cardinality({c \in 0..(JLength(cells) - 1) : IsValueType(JIndex(cells, c))})

\* the cells of a row that are read as operators
OperatorCount(cells) ==
  Cardinality({c \in 0..(JLength(cells) - 1) : IsOperatorNotEquals(JIndex(cells, c))})

\* the even rows of the grid, counted from 0
EvenRows(grid) == {row \in 0..(JLength(grid) - 1) : row % 2 = 0}

\* a missing row, or a row with fewer than two operands or no operator
RowUnparseable(grid, row) ==
  \/ ~JTruthy(JIndex(grid, row))
  \/ OperandCount(JIndex(grid, row)) < 2
  \/ OperatorCount(JIndex(grid, row)) < 1

\* the response reports the row as not valid
RowReportedInvalid(body, row) ==
  \E i \in 1..Len(body.horizontalEquations) :
    body.horizontalEquations[i].row = row /\ ~body.horizontalEquations[i].isValid

\* C11: a grid that is an array and has an even row that cannot be parsed, or
\* no even row that can be parsed, is answered with isValid = false, and each
\* such row is reported as an equation status with isValid = false
UnparseableLineRejected ==
  (Responded /\ Kind(reqGrid) = "array" /\ resBody.status = 200) =>
    /\ \A row \in EvenRows(reqGrid) :
         RowUnparseable(reqGrid, row) => RowReportedInvalid(resBody, row)
    /\ (\A row \in EvenRows(reqGrid) : RowUnparseable(reqGrid, row)) => ~resBody.isValid
    /\ (\E row \in EvenRows(reqGrid) : RowUnparseable(reqGrid, row)) => ~resBody.isValid

(***************************************************************************)
(* The generator's evaluator against the copies of the validators.         *)
(***************************************************************************)
\* the copy returned the number the generator's evaluator returned (0 and -0
\* are the same number)
SameResult(copy, result) ==
  /\ result.ok
  /\ copy.k = "fin"
  /\ copy.d = 1
  /\ copy.n = result.v

\* C12 as stated: on the same operands and operators, every copy of the
\* evaluator returns the result of evaluateFullEquation
EvaluatorsSameResult ==
  pc = "compared" =>
    /\ SameResult(evalCopies.horizontal, evalResult)
    /\ SameResult(evalCopies.vertical, evalResult)
    /\ SameResult(evalCopies.client, evalResult)

\* C12: whenever evaluateFullEquation returns a number, every copy of the
\* evaluator returns that number; whatever it returns, the three copies
\* return the same value
EvaluatorsAgreeOnNumbers ==
  pc = "compared" =>
    /\ evalResult.ok =>
         /\ SameResult(evalCopies.horizontal, evalResult)
         /\ SameResult(evalCopies.vertical, evalResult)
         /\ SameResult(evalCopies.client, evalResult)
    /\ evalCopies.vertical = evalCopies.horizontal
    /\ evalCopies.client = evalCopies.horizontal

\* C12: 10 / 2 - 3 has been given to the generator's evaluator and to the
\* copies, and the client's copy returned 2
QuotientComparedByCopies ==
  /\ pc = "compared"
  /\ evalValues = <<10, 2, 3>>
  /\ evalOperators = <<"/", "-">>
  /\ evalResult = Some(2)
  /\ evalCopies.client = FromInt(2)

(***************************************************************************)
(* The shape of the grids generatePuzzle returns.                          *)
(***************************************************************************)
\* the grid size the difficulty stands for
SizeOfDifficulty(d) == IF d = "easy" THEN 5 ELSE IF d = "medium" THEN 7 ELSE 9

\* the grid is an n x n square whose cells carry their own position
IsSquareOfPlacedCells(grid, n) ==
  /\ Len(grid) = n
  /\ \A r \in 1..n :
       /\ Len(grid[r]) = n
       /\ \A c \in 1..n : grid[r][c].row = r - 1 /\ grid[r][c].col = c - 1

\* C13: the grid and the solution returned for easy, medium and hard are
\* squares of 5, 7 and 9 rows and columns, the fallback included, and every
\* cell's row and col are its position
SizeByDifficulty ==
  Returned =>
    /\ IsSquareOfPlacedCells(genReturned.grid, SizeOfDifficulty(genDifficulty))
    /\ IsSquareOfPlacedCells(genReturned.solution, SizeOfDifficulty(genDifficulty))

\* C13: the fallback has been returned for medium, seven rows of seven cells
MediumFallbackReturned ==
  /\ pc = "done"
  /\ genDifficulty = "medium"
  /\ IsFallback
  /\ Len(genReturned.grid) = 7
  /\ Len(genReturned.solution[7]) = 7

(***************************************************************************)
(* The cells of the grids generatePuzzle returns.                          *)
(***************************************************************************)
\* exactly the Input cells of the grid are editable, and its Blocked cells
\* are empty
OnlyInputsEditable(grid) ==
  \A p \in Positions(grid) :
    LET cell == grid[p[1]][p[2]]
    IN  /\ cell.type \in {"number", "input", "operator", "blocked"}
        /\ cell.isEditable = (cell.type = "input")
        /\ cell.type = "blocked" => cell.value = Empty

\* C14: in the grid and in the solution of every returned puzzle a cell is
\* editable if and only if it is an Input cell, and Blocked cells are empty
CellInvariant ==
  Returned =>
    /\ OnlyInputsEditable(genReturned.grid)
    /\ OnlyInputsEditable(genReturned.solution)

\* C14: a constructed 7x7 puzzle is returned whose solution has an editable
\* Input cell holding its value next to a Number, an Operator and a Blocked
\* cell that are not editable
SevenBySevenWithEveryCellType ==
  /\ pc = "done"
  /\ ~IsFallback
  /\ Len(genReturned.solution) = 7
  /\ \A t \in {"number", "input", "operator", "blocked"} :
       \E p \in Positions(genReturned.solution) :
         LET cell == genReturned.solution[p[1]][p[2]]
         IN  /\ cell.type = t
             /\ cell.isEditable = (t = "input")
             /\ t = "input" => cell.value # Empty

(***************************************************************************)
(* The results of the rows of an easy puzzle.                              *)
(***************************************************************************)
\* the value is a number below zero
IsNegativeNumber(value) == value.k = "number" /\ value.num.k = "fin" /\ value.num.n < 0

\* the result operand of the even row r (counted from 1) of the grid
RowResultValue(grid, r) == grid[r][Len(grid[r])].value

\* C15: no even row of the solution of a puzzle returned for easy, whose
\* configuration disallows negative results, has a negative result operand
NoNegativeResultForEasy ==
  (Returned /\ genDifficulty = "easy") =>
    \A r \in 1..Len(genReturned.solution) :
      r % 2 = 1 => ~IsNegativeNumber(RowResultValue(genReturned.solution, r))

(***************************************************************************)
(* The operators buildDualEquationGridsFromValues puts back.               *)
(***************************************************************************)
\* C16: every even row and every even column of the solution of a
\* constructed 9x9 puzzle is a dual equation that holds with the operators
\* written in it: v0 op1 v1 = r1 and r1 op2 v2 = r2
DualOperatorsReconstructed ==
  (Returned /\ genDifficulty = "hard" /\ ~IsFallback) =>
    \A i \in 0..4 :
      /\ RowBothHold(ToJSON(genReturned.solution), 2 * i)
      /\ ColBothHold(ToJSON(genReturned.solution), 2 * i)

(***************************************************************************)
(* The lines of a constructed 5x5 or 7x7 solution.                         *)
(***************************************************************************)
\* the integer a value cell of a small grid holds
IntOfCell(cell) == cell.value.num.n

\* the operator an operator cell holds
OperatorOfCell(cell) == cell.value.s[1]

\* the chained equation whose cells are at(1) .. at(size) holds under
\* operator precedence: the operands before '=' evaluate to the last value
ChainHolds(at(_), size) ==
  LET n == (size + 1) \div 2
      values == [i \in 1..(n - 1) |-> IntOfCell(at(2 * i - 1))]
      ops == [i \in 1..(n - 2) |-> OperatorOfCell(at(2 * i))]
  IN  /\ OperatorOfCell(at(size - 1)) = "="
      /\ PrecedenceValue(values, ops, 1, 0, 1, values[1]) = Some(IntOfCell(at(size)))

RowChainHolds(grid, r) ==
  LET at(i) == grid[r][i]
  IN  ChainHolds(at, Len(grid))

ColumnChainHolds(grid, c) ==
  LET at(i) == grid[i][c]
  IN  ChainHolds(at, Len(grid))

\* C17: every even row and every even column of the solution of a
\* constructed 5x5 or 7x7 puzzle is a correct chained equation
SmallGridLinesHold ==
  (Returned /\ genDifficulty \in {"easy", "medium"} /\ ~IsFallback) =>
    \A k \in 1..Len(genReturned.solution) :
      k % 2 = 1 =>
        /\ RowChainHolds(genReturned.solution, k)
        /\ ColumnChainHolds(genReturned.solution, k)


\* the attempt budget the claim gives to each size
ClaimedAttempts(gridSize) == IF gridSize = 5 THEN 100 ELSE IF gridSize = 7 THEN 300 ELSE 1000

\* the calls of an attempt function made so far
AttemptsMade ==
  genAttempts + (IF pc \in {"pass", "check"} \/ (pc = "done" /\ genPuzzle.ok) THEN 1 ELSE 0)

BudgetKept ==
  /\ AttemptsMade <= ClaimedAttempts(AdjustedConfig(genDifficulty).gridSize)
  /\ genPasses <= 200
  /\ pc = "done" =>
       IF genPuzzle.ok
         THEN genReturned = genPuzzle
         ELSE /\ genAttempts = ClaimedAttempts(AdjustedConfig(genDifficulty).gridSize)
              /\ genReturned = generateFallbackPuzzle(AdjustedConfig(genDifficulty))

FirstSuccessReturned ==
  /\ (pc = "check" /\ genPuzzle.ok) =>
       (pc' = "done" /\ genReturned' = genPuzzle /\ genAttempts' = genAttempts)
  /\ pc = "done" => pc' = "done"
  /\ genAttempts' # genAttempts => (~genPuzzle.ok /\ genAttempts' = genAttempts + 1)

\* C18: generatePuzzle calls the attempt function at most 100, 300 or 1000
\* times for size 5, 7 or 9, a size-9 attempt makes at most 200 passes over the
\* value grid, a successful attempt is returned at once with no attempt after
\* it, and the fallback is returned only when exactly that many attempts failed.
AttemptBudgetAndFallbackOrder == []BudgetKept /\ [][FirstSuccessReturned]_vars

\* the 300 attempts of a medium puzzle have failed and the fallback is returned
MediumBudgetExhausted ==
  /\ pc = "done"
  /\ genDifficulty = "medium"
  /\ genAttempts = 300
  /\ ~genPuzzle.ok
  /\ genReturned = generateFallbackPuzzle(AdjustedConfig(genDifficulty))


\* the value positions (value-grid row, index) the claim lists for each size
ClaimedGiven(size) ==
  IF size = 9 THEN {<<0, 1>>, <<0, 3>>, <<1, 4>>, <<2, 0>>, <<2, 2>>, <<2, 4>>,
                    <<3, 0>>, <<3, 3>>, <<4, 1>>}
  ELSE IF size = 7 THEN {<<0, 0>>, <<0, 3>>, <<2, 2>>, <<3, 3>>}
  ELSE {<<0, 0>>, <<2, 2>>}

\* the value positions of a grid of the given size
ValuePositions(size) == (0..(size \div 2)) \X (0..(size \div 2))

\* the cell of a grid at a value position
ValueCellAt(grid, q) == grid[2 * q[1] + 1][2 * q[2] + 1]

GivenPatternIn(grid) ==
  \A q \in ValuePositions(Len(grid)) :
    IF q \in ClaimedGiven(Len(grid))
      THEN /\ ValueCellAt(grid, q).type = "number"
           /\ ~ValueCellAt(grid, q).isEditable
      ELSE /\ ValueCellAt(grid, q).type = "input"
           /\ ValueCellAt(grid, q).isEditable

IsValueCell(cell) == cell.type \in {"number", "input"}

IsEqualsCell(cell) == cell.type = "operator" /\ cell.value = JStr(<<"=">>)

IsArithmeticCell(cell) ==
  /\ cell.type = "operator"
  /\ \E op \in {"+", "-", "*", "/"} : cell.value = JStr(<<op>>)

\* the layout the claim gives to the cell at row, col (counted from 0)
DualLayoutAt(cell, row, col) ==
  IF row % 2 = 0 THEN
    IF col % 2 = 0 THEN IsValueCell(cell)
    ELSE IF col \in {1, 5} THEN IsArithmeticCell(cell)
    ELSE IsEqualsCell(cell)
  ELSE IF col % 2 = 0 THEN
    IF row \in {1, 5} THEN IsArithmeticCell(cell) ELSE IsEqualsCell(cell)
  ELSE cell.type = "blocked"

DualLayout(grid) ==
  /\ Len(grid) = 9
  /\ \A r \in 1..9 :
       /\ Len(grid[r]) = 9
       /\ \A c \in 1..9 : DualLayoutAt(grid[r][c], r - 1, c - 1)

\* what the validator reads of a line by position: the values at 0, 2, 4, 6, 8
\* and the operators at 1 and 5
ReadByPosition(at(_)) ==
  [values |-> <<ParseOrZero(ValueOf(at(0))), ParseOrZero(ValueOf(at(2))),
                ParseOrZero(ValueOf(at(4))), ParseOrZero(ValueOf(at(6))),
                ParseOrZero(ValueOf(at(8)))>>,
   operators |-> <<OrPlus(ValueOf(at(1))), OrPlus(ValueOf(at(5)))>>]

\* the positions read are those of the value cells and of the arithmetic
\* operators: collecting the line by cell type gives the same
ReadsTheLayout(grid) ==
  \A k \in {0, 2, 4, 6, 8} :
    /\ LET at(i) == JIndex(JIndex(grid, k), i)
       IN  ReadByPosition(at) = CollectRow(JIndex(grid, k), 0, <<>>, <<>>)
    /\ LET at(i) == JIndex(JIndex(grid, i), k)
       IN  ReadByPosition(at) = CollectColumn(grid, k, 0, 9, <<>>, <<>>)

\* C20: both grids of a constructed 9x9 puzzle have value cells at even row and
\* even column, arithmetic operators at columns 1 and 5 of even rows and at
\* rows 1 and 5 of even columns, '=' at columns 3 and 7 of even rows and at
\* rows 3 and 7 of even columns, Blocked cells at odd row and odd column; the
\* validator's positional reads of a line are its value cells and operators
DualLayoutKept ==
  (Returned /\ ~IsFallback /\ genDifficulty = "hard") =>
    /\ DualLayout(genReturned.grid)
    /\ DualLayout(genReturned.solution)
    /\ ReadsTheLayout(ToJSON(genReturned.solution))
    /\ ReadsTheLayout(ToJSON(genReturned.grid))

\* the solution of a constructed 9x9 puzzle has been read by the validator,
\* which answered with five rows and five columns
DualLayoutValidated ==
  /\ pc = "validated"
  /\ ~IsFallback
  /\ genDifficulty = "hard"
  /\ reqGrid = ToJSON(genReturned.solution)
  /\ Len(resBody.horizontalEquations) = 5
  /\ Len(resBody.verticalEquations) = 5


\* the value the operators of column c give when they are applied in order to
\* the values above the last row, from the value row k on with acc so far
RECURSIVE PathValue(_, _, _, _)
PathValue(grid, c, k, acc) ==
  IF k >= Len(grid) - 2 THEN acc
  ELSE PathValue(grid, c, k + 2,
                 IF OperatorOfCell(grid[k + 1][c]) = "+"
                   THEN acc + IntOfCell(grid[k + 2][c])
                   ELSE acc - IntOfCell(grid[k + 2][c]))

\* the operator cells of column c above the row of equals signs
PathOperators(grid, c) ==
  {OperatorOfCell(grid[k][c]) : k \in {j \in 1..(Len(grid) - 2) : j % 2 = 0}}

\* C21: in a constructed 5x5 or 7x7 puzzle every vertical operator is '+' or
\* '-', and the operators of a column applied in order to its values above
\* the last row give exactly the value of the last row
VerticalPathExact ==
  (Returned /\ genDifficulty \in {"easy", "medium"} /\ ~IsFallback) =>
    \A c \in 1..Len(genReturned.solution) :
      c % 2 = 1 =>
        /\ PathOperators(genReturned.solution, c) \subseteq {"+", "-"}
        /\ PathValue(genReturned.solution, c, 1, IntOfCell(genReturned.solution[1][c]))
             = IntOfCell(genReturned.solution[Len(genReturned.solution)][c])

\* the vertical operators alone: each is '+' or '-'
VerticalOperatorsAdditive ==
  (Returned /\ genDifficulty \in {"easy", "medium"} /\ ~IsFallback) =>
    \A c \in 1..Len(genReturned.solution) :
      c % 2 = 1 => PathOperators(genReturned.solution, c) \subseteq {"+", "-"}


(***************************************************************************)
(* The client: useGameLogic (file part_005) with the game sessions of the  *)
(* server.  The game state is followed without its clock (startTime and    *)
(* completionTime).  A value typed into a cell is a string, a sequence of  *)
(* characters; row and col count from 0.                                   *)
(***************************************************************************)
\* the puzzles the client is sent: a 5x5 puzzle whose solution is valid and a
\* 7x7 puzzle, each as attemptPuzzleGeneration builds it from the draws
EasyDraws ==
  [firstVals |-> <<1, 2>>, firstOps |-> <<"+">>,
   lastVals |-> <<2, 1>>, lastOps |-> <<"+">>,
   stepOps |-> [c \in 1..3 |-> <<>>]]

MediumDraws ==
  [firstVals |-> <<7, 1, 1>>, firstOps |-> <<"+", "+">>,
   lastVals |-> <<1, 11, 11>>, lastOps |-> <<"-", "*">>,
   stepOps |-> <<(<<"+">>), (<<"-">>), (<<"-">>), (<<"+">>)>>]

EasyPuzzle == attemptPuzzleGeneration(AdjustedConfig("easy"), EasyDraws)

MediumPuzzle == attemptPuzzleGeneration(AdjustedConfig("medium"), MediumDraws)

ServedPuzzles == {EasyPuzzle, MediumPuzzle}

\* at most MaxLoads puzzles arrive
MaxLoads == 2
\* getHint is followed while hintsUsed is below MaxHints
MaxHints == 8
\* the cells updateCell is called for: a given cell, an input cell and a
\* position outside every grid
EditCells == {<<0, 0>>, <<0, 2>>, <<9, 9>>}
\* the strings updateCell is called with
EditValues ==
  {<<>>, <<"2">>, <<"9", "9">>, <<"1", "0", "0">>, <<"-", "1", "0", "0">>, <<"x">>}

\* puzzle.grid.map(row => row.map(cell => ({...cell, value: cell.isEditable ? '' : cell.value})))
InitialGrid(grid) ==
  [r \in 1..Len(grid) |->
     [c \in 1..Len(grid[r]) |->
        IF grid[r][c].isEditable THEN [grid[r][c] EXCEPT !.value = Empty]
        ELSE grid[r][c]]]

\* gameState.grid[row] && gameState.grid[row][col] && gameState.grid[row][col].isEditable
Addressed(grid, row, col) ==
  /\ row + 1 \in 1..Len(grid)
  /\ col + 1 \in 1..Len(grid[row + 1])
  /\ grid[row + 1][col + 1].isEditable

\* a range check that lets three digits through
OutOfRangeWide(numValue) ==
  \/ IsNaN(numValue)
  \/ NumLess(numValue, FromInt(-999))
  \/ NumLess(FromInt(999), numValue)

\* isNaN(numValue) || numValue < -99 || numValue > 99
OutOfRange(numValue) ==
  \/ IsNaN(numValue)
  \/ NumLess(numValue, FromInt(-99))
  \/ NumLess(FromInt(99), numValue)

\* value !== '' && (isNaN(numValue) || numValue < -99 || numValue > 99)
RejectedInput(value) == value # <<>> /\ OutOfRange(ParseFloatStr(value))

\* value === '' ? '' : numValue
TypedValue(value) == IF value = <<>> THEN Empty ELSE JNum(ParseFloatStr(value))

\* the game state after updateCell(row, col, value)
updateCell(state, row, col, value) ==
  IF ~Addressed(state.grid, row, col) THEN state
  ELSE IF RejectedInput(value) THEN state
  ELSE [state EXCEPT !.grid[row + 1][col + 1].value = TypedValue(value)]

\* the empty editable cells, as <<row, col>>
EmptyCells(grid) ==
  {q \in (0..(Len(grid) - 1)) \X (0..(Len(grid) - 1)) :
     /\ grid[q[1] + 1][q[2] + 1].isEditable
     /\ grid[q[1] + 1][q[2] + 1].value = Empty}

\* emptyCells in the order of the two loops: is q before t
Before(q, t) == q[1] < t[1] \/ (q[1] = t[1] /\ q[2] < t[2])

\* the cell emptyCells[randomIndex] is followed for: the last one
HintChoices(cells) ==
  {q \in cells : (\A t \in cells : t = q \/ Before(t, q))}

\* updateCell(row, col, solutionValue.toString()), then hintsUsed + 1
HintAt(state, solution, q) ==
  [updateCell(state, q[1], q[2], JSToString(solution[q[1] + 1][q[2] + 1].value))
     EXCEPT !.hintsUsed = @ + 1]

\* a reset that keeps the hint count
ResetStateKeepingHints(data) ==
  [grid |-> InitialGrid(data.grid), isCompleted |-> FALSE, hintsUsed |-> gameState.hintsUsed]

\* resetGame for a loaded puzzle
ResetState(data) == [grid |-> InitialGrid(data.grid), isCompleted |-> FALSE, hintsUsed |-> 0]

\* a new game session as POST /api/game-sessions stores it
NewSession(puzzleId) == [puzzleId |-> puzzleId, isCompleted |-> FALSE, hintsUsed |-> 0]

\* a puzzle arrives: the effect sets the grid and asks for a game session,
\* which the server creates and answers
LoadPuzzle ==
  /\ pc = "client"
  /\ puzzle.id < MaxLoads
  /\ \E p \in ServedPuzzles :
       puzzle' = [ok |-> TRUE, id |-> puzzle.id + 1, grid |-> p.grid, solution |-> p.solution]
  /\ gameState' = [gameState EXCEPT !.grid = InitialGrid(puzzle'.grid)]
  /\ sessions' = Append(sessions, NewSession(puzzle'.id))
  /\ network' = network \cup {[kind |-> "session", id |-> Len(sessions'),
                                 isValid |-> FALSE, hintsUsed |-> 0]}
  /\ UNCHANGED <<genVars, pc, reqGrid, resBody, evalVars, gameSessionId, cliStatus, authVars>>

\* the response of POST /api/game-sessions arrives: setGameSessionId(session.id)
SessionCreated ==
  /\ pc = "client"
  /\ \E m \in network :
       /\ m.kind = "session"
       /\ gameSessionId' = m.id
       /\ network' = network \ {m}
  /\ UNCHANGED <<genVars, pc, reqGrid, resBody, evalVars, puzzle, gameState, sessions,
                 cliStatus, authVars>>

UpdateCell ==
  /\ pc = "client"
  /\ \E q \in EditCells, value \in EditValues :
       gameState' = updateCell(gameState, q[1], q[2], value)
  /\ UNCHANGED <<genVars, pc, reqGrid, resBody, evalVars, puzzle, gameSessionId, network,
                 sessions, cliStatus, authVars>>

GetHint ==
  /\ pc = "client"
  /\ puzzle.ok
  /\ gameState.hintsUsed < MaxHints
  /\ EmptyCells(gameState.grid) # {}
  /\ \E q \in HintChoices(EmptyCells(gameState.grid)) :
       gameState' = HintAt(gameState, puzzle.solution, q)
  /\ UNCHANGED <<genVars, pc, reqGrid, resBody, evalVars, puzzle, gameSessionId, network,
                 sessions, cliStatus, authVars>>

ResetGame ==
  /\ pc = "client"
  /\ puzzle.ok
  /\ gameState' = ResetState(puzzle)
  /\ UNCHANGED <<genVars, pc, reqGrid, resBody, evalVars, puzzle, gameSessionId, network,
                 sessions, cliStatus, authVars>>

\* validateSolution up to its await: the grid is posted, the server validates
\* it and answers; one validation is pending at a time
CheckSolution ==
  /\ pc = "client"
  /\ Len(gameState.grid) # 0
  /\ \A m \in network : m.kind # "validation"
  /\ reqGrid' = ToJSON(gameState.grid)
  /\ resBody' = ValidateSolutionHandler(reqGrid')
  /\ network' = network \cup {[kind |-> "validation", id |-> 0,
                                 isValid |-> resBody'.isValid,
                                 hintsUsed |-> gameState.hintsUsed]}
  /\ UNCHANGED <<genVars, pc, evalVars, puzzle, gameState, gameSessionId, sessions,
                 cliStatus, authVars>>

\* PATCH /api/game-sessions/:id with isCompleted and hintsUsed, sent unless
\* gameSessionId is null
Patched(stored, id, hintsUsed) ==
  IF id = 0 THEN stored
  ELSE [stored EXCEPT ![id] = [@ EXCEPT !.isCompleted = TRUE, !.hintsUsed = hintsUsed]]

\* validateSolution after its await: the result arrives
ValidationResult ==
  /\ pc = "client"
  /\ \E m \in network :
       /\ m.kind = "validation"
       /\ network' = network \ {m}
       /\ IF m.isValid
            THEN /\ gameState' = [gameState EXCEPT !.isCompleted = TRUE]
                 /\ sessions' = Patched(sessions, gameSessionId, m.hintsUsed)
            ELSE UNCHANGED <<gameState, sessions>>
  /\ UNCHANGED <<genVars, pc, reqGrid, resBody, evalVars, puzzle, gameSessionId,
                 cliStatus, authVars>>

ClientInit ==
  /\ pc = "client"
  /\ genDifficulty = "easy"
  /\ genAttempts = 0
  /\ genPasses = 0
  /\ genPuzzle = NoPuzzle
  /\ genReturned = NoPuzzle
  /\ reqGrid = Undefined
  /\ resBody = NoResponse
  /\ evalValues = <<>>
  /\ evalOperators = <<>>
  /\ evalResult = NullNum
  /\ evalCopies = NoCopies
  /\ AppInit

\* the player's calls and the validation of the grid
GameNext ==
  \/ LoadPuzzle
  \/ UpdateCell
  \/ GetHint
  \/ ResetGame
  \/ CheckSolution
  \/ ValidationResult

GameSpec == ClientInit /\ [][GameNext]_vars

\* puzzle loads, game sessions and checks of grids filled by hints
SessionNext ==
  \/ LoadPuzzle
  \/ SessionCreated
  \/ GetHint
  \/ CheckSolution
  \/ ValidationResult

SessionSpec == ClientInit /\ [][SessionNext]_vars


(***************************************************************************)
(* Properties of the client.                                               *)
(***************************************************************************)
\* the number each string of EditValues denotes, if any
DenotedNumber(value) ==
  IF value = <<"2">> THEN Some(2)
  ELSE IF value = <<"9", "9">> THEN Some(99)
  ELSE IF value = <<"1", "0", "0">> THEN Some(100)
  ELSE IF value = <<"-", "1", "0", "0">> THEN Some(-100)
  ELSE NullNum

\* the empty string, or a number in -99 .. 99
AcceptedValue(value) ==
  \/ value = <<>>
  \/ /\ DenotedNumber(value).ok
     /\ DenotedNumber(value).v >= -99
     /\ DenotedNumber(value).v <= 99

\* the cell at q exists in the grid and is editable
EditableAt(grid, q) ==
  /\ q[1] < Len(grid)
  /\ q[2] < Len(grid)
  /\ grid[q[1] + 1][q[2] + 1].isEditable

\* the state the call must lead to: one cell's value changed, or nothing
ClaimedUpdate(state, q, value) ==
  IF EditableAt(state.grid, q) /\ AcceptedValue(value)
    THEN [grid |-> [r \in 1..Len(state.grid) |->
                      [c \in 1..Len(state.grid[r]) |->
                         IF r = q[1] + 1 /\ c = q[2] + 1
                           THEN [state.grid[r][c] EXCEPT
                                   !.value = IF value = <<>> THEN Empty
                                             ELSE JInt(DenotedNumber(value).v)]
                           ELSE state.grid[r][c]]],
          isCompleted |-> state.isCompleted,
          hintsUsed |-> state.hintsUsed]
    ELSE state

UpdateCellExact ==
  \A q \in EditCells, value \in EditValues :
    updateCell(gameState, q[1], q[2], value) = ClaimedUpdate(gameState, q, value)

\* every cell of the grid that is not editable is the cell the puzzle gave
GivenCellsKept ==
  puzzle.ok =>
    /\ Len(gameState.grid) = Len(puzzle.grid)
    /\ \A r \in 1..Len(puzzle.grid), c \in 1..Len(puzzle.grid) :
         /\ gameState.grid[r][c].isEditable = puzzle.grid[r][c].isEditable
         /\ ~puzzle.grid[r][c].isEditable => gameState.grid[r][c] = puzzle.grid[r][c]

\* C22: updateCell(row, col, value) changes the value of the addressed cell,
\* to '' or to the number, when the cell exists and is editable and value is
\* '' or a number in -99 .. 99, and changes nothing in every other case; it
\* leaves every other cell, hintsUsed, isCompleted and everything outside the
\* game state alone, and the given cells stay what the puzzle gave
UpdateCellFrame ==
  /\ [](UpdateCellExact /\ GivenCellsKept)
  /\ [][UpdateCell => /\ gameState'.hintsUsed = gameState.hintsUsed
                       /\ gameState'.isCompleted = gameState.isCompleted
                       /\ \E q \in EditCells, value \in EditValues :
                            gameState' = ClaimedUpdate(gameState, q, value)]_vars

\* 99 has been typed into the input cell at row 0, column 2 of a grid whose
\* given cell at row 0, column 0 was addressed too
TypedNinetyNine ==
  /\ puzzle.ok
  /\ gameState.grid[1][3].value = JInt(99)
  /\ ~gameState.grid[1][1].isEditable
  /\ gameState.grid[1][1] = puzzle.grid[1][1]


\* the grid with the solution value written into the cell at q
FilledAt(grid, solution, q) ==
  [grid EXCEPT ![q[1] + 1][q[2] + 1].value = JInt(IntOfCell(solution[q[1] + 1][q[2] + 1]))]

\* C23: a call of getHint with a puzzle loaded and an empty editable cell
\* fills exactly one empty editable cell with the solution value of its
\* position, changes no other cell and adds exactly 1 to hintsUsed
HintFillsOneCell ==
  [][GetHint =>
       /\ gameState'.hintsUsed = gameState.hintsUsed + 1
       /\ gameState'.isCompleted = gameState.isCompleted
       /\ \E q \in EmptyCells(gameState.grid) :
            gameState'.grid = FilledAt(gameState.grid, puzzle.solution, q)]_vars


\* the server has reported the submitted grid as valid and the response is
\* on its way to the client
PendingValid == \E m \in network : m.kind = "validation" /\ m.isValid

\* C24: whenever the server reports the submitted grid as valid, the
\* completion update reaches the game session created for the currently
\* loaded puzzle: it is not dropped for want of a session id and it does not
\* reach the session of a puzzle loaded earlier
CompletionUpdateSent ==
  [][(ValidationResult /\ PendingValid) =>
       /\ sessions'[puzzle.id].isCompleted
       /\ \A i \in 1..Len(sessions) : i # puzzle.id => sessions'[i] = sessions[i]]_vars

\* the update of a valid check is dropped while gameSessionId is null
CompletionUpdateNeverDropped ==
  [][(ValidationResult /\ PendingValid) => sessions' # sessions]_vars


\* an update that is sent reaches the session of the current puzzle
CompletionUpdateToCurrent ==
  [][(ValidationResult /\ PendingValid /\ gameSessionId # 0) =>
       sessions'[puzzle.id].isCompleted]_vars


\* ---------------------------------------------------------------------
\* POST /api/auth/register on the in-memory storage
\* ---------------------------------------------------------------------

MaxRequests == 3
Usernames == {"ann", "bob"}
RequestIds == 1..MaxRequests

NoRequest == [username |-> "", at |-> "idle", existing |-> FALSE, status |-> 0]

\* Array.from(this.users.values()).find(user => user.username === username)
getUserByUsername(stored, username) ==
  \E i \in 1..Len(stored) : stored[i].username = username

\* this.users.set(id, { ...insertUser, id }) with a fresh id
createUser(stored, username) ==
  Append(stored, [id |-> Len(stored) + 1, username |-> username])

\* the request is parsed and the lookup made; its result is awaited
RegisterReceive ==
  /\ pc = "register"
  /\ \E r \in RequestIds, username \in Usernames :
       /\ requests[r].at = "idle"
       /\ requests' = [requests EXCEPT ![r] =
            [username |-> username, at |-> "check",
             existing |-> getUserByUsername(users, username), status |-> 0]]
  /\ UNCHANGED <<genVars, pc, reqGrid, resBody, evalVars, clientVars, cliStatus, users>>

\* if (existingUser) return 400; otherwise the password hash is awaited
RegisterChecked ==
  /\ pc = "register"
  /\ \E r \in RequestIds :
       /\ requests[r].at = "check"
       /\ requests' = [requests EXCEPT ![r] =
            IF @.existing THEN [@ EXCEPT !.at = "done", !.status = 400]
            ELSE [@ EXCEPT !.at = "hash"]]
  /\ UNCHANGED <<genVars, pc, reqGrid, resBody, evalVars, clientVars, cliStatus, users>>

\* the hash is ready: storage.createUser stores the user
RegisterHashed ==
  /\ pc = "register"
  /\ \E r \in RequestIds :
       /\ requests[r].at = "hash"
       /\ users' = createUser(users, requests[r].username)
       /\ requests' = [requests EXCEPT ![r].at = "create"]
  /\ UNCHANGED <<genVars, pc, reqGrid, resBody, evalVars, clientVars, cliStatus>>

\* req.login succeeds and the user is returned with status 201
RegisterRespond ==
  /\ pc = "register"
  /\ \E r \in RequestIds :
       /\ requests[r].at = "create"
       /\ requests' = [requests EXCEPT ![r] = [@ EXCEPT !.at = "done", !.status = 201]]
  /\ UNCHANGED <<genVars, pc, reqGrid, resBody, evalVars, clientVars, cliStatus, users>>

RegisterInit ==
  /\ pc = "register"
  /\ genDifficulty = "easy"
  /\ genAttempts = 0
  /\ genPasses = 0
  /\ genPuzzle = NoPuzzle
  /\ genReturned = NoPuzzle
  /\ reqGrid = Undefined
  /\ resBody = NoResponse
  /\ evalValues = <<>>
  /\ evalOperators = <<>>
  /\ evalResult = NullNum
  /\ evalCopies = NoCopies
  /\ puzzle = NoData
  /\ gameState = [grid |-> <<>>, isCompleted |-> FALSE, hintsUsed |-> 0]
  /\ gameSessionId = 0
  /\ network = {}
  /\ sessions = <<>>
  /\ cliStatus = [horizontal |-> <<>>, vertical |-> <<>>]
  /\ users = <<>>
  /\ requests = [r \in RequestIds |-> NoRequest]

RegisterNext ==
  \/ RegisterReceive
  \/ RegisterChecked
  \/ RegisterHashed
  \/ RegisterRespond

RegisterSpec == RegisterInit /\ [][RegisterNext]_vars

\* C25: after any interleaving of registration requests no two stored
\* users have the same username
UniqueUsernames ==
  \A i, j \in 1..Len(users) : i # j => users[i].username # users[j].username

\* a registration for a username that is already stored is answered with 400
\* and creates no user
StoredUsernameRejected ==
  [][\A r \in RequestIds :
       (requests[r].at = "check" /\ requests[r].existing /\ requests'[r] # requests[r]) =>
          /\ users' = users
          /\ requests'[r].status = 400]_vars


\* the positions of the Input cells of a grid
InputCells(grid) ==
  {q \in (0..(Len(grid) - 1)) \X (0..(Len(grid) - 1)) :
     grid[q[1] + 1][q[2] + 1].type = "input"}

\* C26: the solution value of every Input cell of a puzzle served by the
\* generator is an integer of -99 .. 99, a value updateCell accepts
SolutionValuesAccepted ==
  puzzle.ok =>
    \A q \in InputCells(puzzle.grid) :
      /\ IntOfCell(puzzle.solution[q[1] + 1][q[2] + 1]) \in -99..99
      /\ ~RejectedInput(JSToString(puzzle.solution[q[1] + 1][q[2] + 1].value))


\* C27: in every reachable state of the client, isCompleted = true implies
\* that the grid held in the game state is a grid the server validates as
\* correct
CompletedGridIsValid ==
  gameState.isCompleted => ValidateSolutionHandler(ToJSON(gameState.grid)).isValid

\* an edit of a completed game is rejected or clears isCompleted
CompletedEditRejected ==
  [][(UpdateCell /\ gameState.isCompleted /\ gameState'.isCompleted) =>
       gameState'.grid = gameState.grid]_vars


\* C28: whenever a new puzzle arrives in the client the game starts afresh:
\* hintsUsed = 0, isCompleted = false and the grid is the grid of the new
\* puzzle with every editable cell blank
NewPuzzleFreshGame ==
  [][LoadPuzzle => gameState' = ResetState(puzzle')]_vars

\* the grid of a new puzzle is the new puzzle's grid with the editable
\* cells blank
NewPuzzleFreshGrid ==
  [][LoadPuzzle => gameState'.grid = InitialGrid(puzzle'.grid)]_vars


\* ---------------------------------------------------------------------
\* getEquationStatus (client)
\* ---------------------------------------------------------------------

\* value?.toString()
ClientText(v) == IF v = Undefined \/ v = Null THEN Undefined ELSE JStr(JSToString(v))

\* parseFloat(value?.toString() || '0') || 0
ClientNumber(v) ==
  OrZero(ParseFloat(IF Truthy(ClientText(v)) THEN ClientText(v) ELSE JStr(<<"0">>)))

\* value?.toString() || '+'
ClientOperator(v) == OrPlus(ClientText(v))

\* cellValue !== '' && cellValue !== undefined && cellValue !== null
IsFilled(v) == v # Empty /\ v # Undefined /\ v # Null

\* Math.abs(expected - result) < 0.001
ClientWithin(expected, result) == NumLess(NumAbs(NumSub(expected, result)), Tolerance)

\* the columns (rows) 0, 2, 4, ... of a line
EvenIndexes(gridSize) == {i \in 0..(gridSize - 1) : i % 2 = 0}

\* isComplete of a row: every cell at an even column is filled
RowComplete(cells, gridSize) ==
  \A col \in EvenIndexes(gridSize) : IsFilled(ValueOf(JIndex(cells, col)))

\* isComplete of a column: every cell at an even row is filled
ColComplete(grid, col, gridSize) ==
  \A row \in EvenIndexes(gridSize) : IsFilled(ColumnValue(grid, row, col))

\* the two mini-equations of a 9x9 line on the client
ClientDualStatus(v0, op1, v1, r1, op2, v2, r2, isComplete) ==
  [equation |-> NumText(v0) \o Sp \o OpText(op1) \o Sp \o NumText(v1) \o Sp
                  \o <<"=">> \o Sp \o NumText(r1) \o <<",">> \o Sp
                  \o NumText(r1) \o Sp \o OpText(op2) \o Sp \o NumText(v2) \o Sp
                  \o <<"=">> \o Sp \o NumText(r2),
   isValid |-> /\ ClientWithin(ClientEvaluate(<<v0, v1>>, <<op1>>), r1)
               /\ ClientWithin(ClientEvaluate(<<r1, v2>>, <<op2>>), r2)
               /\ isComplete,
   isComplete |-> isComplete]

\* the single equation of a 5x5 / 7x7 line on the client
ClientSingleStatus(values, operators, isComplete) ==
  [equation |-> NumText(values[1]) \o EquationTail(values, operators, 1)
                  \o Sp \o <<"=">> \o Sp \o NumText(values[Len(values)]),
   isValid |-> /\ ClientWithin(ClientEvaluate(SubSeq(values, 1, Len(values) - 1), operators),
                               values[Len(values)])
               /\ isComplete,
   isComplete |-> isComplete]

\* values.push(parseFloat(...) || 0) for a number or input cell
ClientValues(values, cell) ==
  IF JTruthy(cell) /\ IsValueType(cell)
    THEN Append(values, ClientNumber(ValueOf(cell)))
    ELSE values

\* operators.push(cell.value?.toString() || '+') for an operator other than '='
ClientOperators(operators, cell) ==
  IF JTruthy(cell) /\ ~IsValueType(cell) /\ IsOperatorNotEquals(cell)
    THEN Append(operators, ClientOperator(ValueOf(cell)))
    ELSE operators

\* the values and operators of the cells of a row, from col on
RECURSIVE ClientCollectRow(_, _, _, _, _)
ClientCollectRow(cells, col, gridSize, values, operators) ==
  IF ~(col < gridSize) THEN [values |-> values, operators |-> operators]
  ELSE ClientCollectRow(cells, col + 1, gridSize, ClientValues(values, JIndex(cells, col)),
                        ClientOperators(operators, JIndex(cells, col)))

\* the values and operators of the cells of a column, from row on
RECURSIVE ClientCollectColumn(_, _, _, _, _, _)
ClientCollectColumn(grid, col, row, gridSize, values, operators) ==
  IF ~(row < gridSize) THEN [values |-> values, operators |-> operators]
  ELSE ClientCollectColumn(grid, col, row + 1, gridSize,
                           ClientValues(values, JIndex(JIndex(grid, row), col)),
                           ClientOperators(operators, JIndex(JIndex(grid, row), col)))

\* horizontal.push({ row, equation, isValid, isComplete })
ClientRowEntry(row, st) ==
  <<[row |-> row, equation |-> st.equation, isValid |-> st.isValid,
     isComplete |-> st.isComplete]>>

\* vertical.push({ col, equation, isValid, isComplete })
ClientColEntry(col, st) ==
  <<[col |-> col, equation |-> st.equation, isValid |-> st.isValid,
     isComplete |-> st.isComplete]>>

\* the entry of a single line, if it has two values
ClientSingleRow(c, row, isComplete) ==
  IF Len(c.values) < 2 THEN <<>>
  ELSE ClientRowEntry(row, ClientSingleStatus(c.values, c.operators, isComplete))

ClientSingleColumn(c, col, isComplete) ==
  IF Len(c.values) < 2 THEN <<>>
  ELSE ClientColEntry(col, ClientSingleStatus(c.values, c.operators, isComplete))

\* what the row of cells adds to horizontal
ClientRow(cells, row, gridSize) ==
  IF ~JTruthy(cells) THEN <<>>
  ELSE IF gridSize = 9 THEN
    ClientRowEntry(row, ClientDualStatus(ClientNumber(ValueOf(JIndex(cells, 0))),
                                         ClientOperator(ValueOf(JIndex(cells, 1))),
                                         ClientNumber(ValueOf(JIndex(cells, 2))),
                                         ClientNumber(ValueOf(JIndex(cells, 4))),
                                         ClientOperator(ValueOf(JIndex(cells, 5))),
                                         ClientNumber(ValueOf(JIndex(cells, 6))),
                                         ClientNumber(ValueOf(JIndex(cells, 8))),
                                         RowComplete(cells, gridSize)))
  ELSE ClientSingleRow(ClientCollectRow(cells, 0, gridSize, <<>>, <<>>), row,
                       RowComplete(cells, gridSize))

\* what the column col adds to vertical
ClientColumn(grid, col, gridSize) ==
  IF gridSize = 9 THEN
    ClientColEntry(col, ClientDualStatus(ClientNumber(ColumnValue(grid, 0, col)),
                                         ClientOperator(ColumnValue(grid, 1, col)),
                                         ClientNumber(ColumnValue(grid, 2, col)),
                                         ClientNumber(ColumnValue(grid, 4, col)),
                                         ClientOperator(ColumnValue(grid, 5, col)),
                                         ClientNumber(ColumnValue(grid, 6, col)),
                                         ClientNumber(ColumnValue(grid, 8, col)),
                                         ColComplete(grid, col, gridSize)))
  ELSE ClientSingleColumn(ClientCollectColumn(grid, col, 0, gridSize, <<>>, <<>>), col,
                          ColComplete(grid, col, gridSize))

RECURSIVE ClientHorizontalFrom(_, _, _)
ClientHorizontalFrom(grid, row, gridSize) ==
  IF ~(row < gridSize) THEN <<>>
  ELSE ClientRow(JIndex(grid, row), row, gridSize)
         \o ClientHorizontalFrom(grid, row + 2, gridSize)

RECURSIVE ClientVerticalFrom(_, _, _)
ClientVerticalFrom(grid, col, gridSize) ==
  IF ~(col < gridSize) THEN <<>>
  ELSE ClientColumn(grid, col, gridSize) \o ClientVerticalFrom(grid, col + 2, gridSize)

\* getEquationStatus() of the grid the game state holds
getEquationStatus(grid) ==
  IF JLength(grid) = 0 THEN [horizontal |-> <<>>, vertical |-> <<>>]
  ELSE [horizontal |-> ClientHorizontalFrom(grid, 0, JLength(grid)),
        vertical |-> ClientVerticalFrom(grid, 0, JLength(grid))]


\* the rows of cells of a grid posted as JSON
CellsOf(grid) == [r \in 1..Len(grid.a) |-> grid.a[r].a]

\* every Input cell is blank or holds a number
IsFillState(grid) ==
  \A r \in 1..Len(grid), c \in 1..Len(grid) :
    grid[r][c].type = "input" =>
      (grid[r][c].value = Empty \/ grid[r][c].value.k = "number")

\* the grid with the Input cell at q blank
Blanked(grid, q) == [grid EXCEPT ![q[1] + 1][q[2] + 1].value = Empty]

\* the fill states of the served puzzles that are followed: nothing filled,
\* everything filled, everything but one cell filled
PuzzleFills(p) ==
  {InitialGrid(p.grid), p.solution} \cup {Blanked(p.solution, q) : q \in InputCells(p.grid)}

\* grids of size 5, 7 and 9 in fill states of their Input cells
StatusGrids ==
  {g \in {CellsOf(j) : j \in LineGrids5 \cup CrossGrids9} : IsFillState(g)}
    \cup UNION {PuzzleFills(p) : p \in ServedPuzzles}

\* a render: the equation status of the grid held
RenderStatus ==
  /\ pc = "client"
  /\ Len(gameState.grid) # 0
  /\ cliStatus' = getEquationStatus(ToJSON(gameState.grid))
  /\ cliStatus' # cliStatus
  /\ UNCHANGED <<genVars, pc, reqGrid, resBody, evalVars, clientVars, authVars>>

StatusInit ==
  /\ pc = "client"
  /\ genDifficulty = "easy"
  /\ genAttempts = 0
  /\ genPasses = 0
  /\ genPuzzle = NoPuzzle
  /\ genReturned = NoPuzzle
  /\ reqGrid = Undefined
  /\ resBody = NoResponse
  /\ evalValues = <<>>
  /\ evalOperators = <<>>
  /\ evalResult = NullNum
  /\ evalCopies = NoCopies
  /\ puzzle = NoData
  /\ \E g \in StatusGrids :
       gameState = [grid |-> g, isCompleted |-> FALSE, hintsUsed |-> 0]
  /\ gameSessionId = 0
  /\ network = {}
  /\ sessions = <<>>
  /\ cliStatus = [horizontal |-> <<>>, vertical |-> <<>>]
  /\ users = <<>>
  /\ requests = <<>>

\* the client renders the status of its grid and has the server check it
StatusNext ==
  \/ RenderStatus
  \/ CheckSolution

StatusSpec == StatusInit /\ [][StatusNext]_vars

\* the client has rendered the status and the server has answered
BothAnswered == Len(cliStatus.horizontal) > 0 /\ resBody.status = 200

\* the lines of the client and of the server are the same rows, with the
\* same isValid
SameRows(client, server) ==
  /\ Len(client) = Len(server)
  /\ \A i \in 1..Min(Len(client), Len(server)) :
       client[i].row = server[i].row /\ client[i].isValid = server[i].isValid

SameCols(client, server) ==
  /\ Len(client) = Len(server)
  /\ \A i \in 1..Min(Len(client), Len(server)) :
       client[i].col = server[i].col /\ client[i].isValid = server[i].isValid

\* C29: for every grid of size 5, 7 or 9 in any fill state of its Input
\* cells, the isValid of every row and column computed by getEquationStatus
\* equals the isValid the server returns for that row or column, so the
\* client shows every equation valid exactly when the server accepts the grid
StatusAgrees ==
  BothAnswered =>
    /\ SameRows(cliStatus.horizontal, resBody.horizontalEquations)
    /\ SameCols(cliStatus.vertical, resBody.verticalEquations)
    /\ (EveryValid(cliStatus.horizontal) /\ EveryValid(cliStatus.vertical)) = resBody.isValid

\* every line of the status is complete
AllComplete(status) ==
  /\ \A i \in 1..Len(status.horizontal) : status.horizontal[i].isComplete
  /\ \A i \in 1..Len(status.vertical) : status.vertical[i].isComplete

\* client and server agree on the grids without a blank value cell
StatusAgreesWhenComplete ==
  (BothAnswered /\ AllComplete(cliStatus)) =>
    /\ SameRows(cliStatus.horizontal, resBody.horizontalEquations)
    /\ SameCols(cliStatus.vertical, resBody.verticalEquations)
    /\ (EveryValid(cliStatus.horizontal) /\ EveryValid(cliStatus.vertical)) = resBody.isValid


\* the state holds the player grid of the puzzle with every editable cell
\* blank and every given cell at its original value, no hint used and the
\* game not completed
IsRestored(state, data) ==
  /\ Len(state.grid) = Len(data.grid)
  /\ \A r \in 1..Len(data.grid) :
       /\ Len(state.grid[r]) = Len(data.grid[r])
       /\ \A c \in 1..Len(data.grid[r]) :
            /\ [state.grid[r][c] EXCEPT !.value = Empty] = [data.grid[r][c] EXCEPT !.value = Empty]
            /\ state.grid[r][c].value =
                 IF data.grid[r][c].isEditable THEN Empty ELSE data.grid[r][c].value
  /\ state.hintsUsed = 0
  /\ ~state.isCompleted

\* C30: resetGame restores the initial state of the loaded puzzle, from
\* any state reached by updateCell, getHint and validation; a second
\* resetGame changes nothing
ResetRestores ==
  [][ResetGame =>
       /\ IsRestored(gameState', puzzle)
       /\ (IsRestored(gameState, puzzle) => gameState' = gameState)]_vars

\* the game has been reset after hints were used and the grid was checked:
\* the answer in flight still carries the hint count
ResetAfterHints ==
  /\ puzzle.ok
  /\ IsRestored(gameState, puzzle)
  /\ \E m \in network : m.kind = "validation" /\ m.hintsUsed > 0

=============================================================================
